---- MODULE Spec2Model ----
(***************************************************************************)
(* boatload: the phase orchestrator (Workload, Measurement, Cleanup,       *)
(* Metrics), the network-impairment passes and the link-flap timer of      *)
(* main(), with the result rows it writes.                                 *)
(*                                                                         *)
(* Time is counted in ticks of the wait loop's sleep interval (100 ms).    *)
(* One run of main() is one behaviour: argparse's result is the initial    *)
(* cliargs, every external command returns a status chosen by the          *)
(* environment, and the clock advances by cmd_ticks per external command   *)
(* and by SleepTicks per sleep of the wait loop.                           *)
(***************************************************************************)
EXTENDS Integers, Sequences, FiniteSets, TLC

\* ------------------------------------------------------------------ bounds
MaxDuration == 4     \* --duration ranges over 0..MaxDuration seconds
MaxFlap == 2         \* --link-flap-down / --link-flap-up range over 0..MaxFlap seconds
NumVlans == 3        \* the VLAN range is start_vlan .. start_vlan + NumVlans - 1
MaxCmdTicks == 1     \* an external command takes 0..MaxCmdTicks ticks
MaxInvocations == 2  \* invocations of the program, one after the other
MaxSamples == 3      \* a metric series holds up to MaxSamples values ...
MaxValue == 3        \* ... each in 0..MaxValue
MaxWriters == 2      \* invocations that write their rows at the same time

\* ------------------------------------------------------- program constants
TicksPerSecond == 10 \* time.sleep(.1): ten polls per second of --duration
SleepTicks == 1      \* one sleep of the wait loop
DefaultStartVlan == 100
MaxProbeFields == 6
Unbound == -1        \* a local of main() that no statement has assigned yet

\* ------------------------------------------------------------------ state
VARIABLES
  cliargs,       \* argparse's namespace (main() rewrites some of its fields)
  cmd_ticks,     \* how long the environment's external commands take
  pc,            \* main()'s position
  exit_code,     \* Unbound while running, then the process's exit status
  now,           \* time.time(), in ticks
  process_start, \* the first time.time() of main(), kept for reference
  times,         \* the *_time locals of main()
  flap,          \* flap_links, links_down, next_flap_time, link_flap_count, current_time
  counts,        \* the five event counters
  cmds,          \* every external command issued, in order, with its status
  links,         \* per VLAN sub-interface: admin state, DROP rules, netem qdisc
  pod_latencies, \* the pod-latency table read from the engine's summary
  metrics_data,  \* the aggregated metric series
  results_file,  \* rows of the results csv
  metrics_file,  \* rows of the metrics csv
  argv,          \* the options as passed in, before main() rewrites any
  events,        \* the cluster's event store as the event queries saw it
  metric_files,  \* the files the index job left in the metrics directory
  invocation,    \* which invocation of the program this is, from 1
  runs,          \* the earlier invocations: options, exit status, commands
  probe_args,    \* startup_probe_args, liveness_probe_args, readiness_probe_args
  writers        \* invocations writing their rows at the same time, each with its position

vars == <<cliargs, cmd_ticks, pc, exit_code, now, process_start, times, flap, counts,
          cmds, links, pod_latencies, metrics_data, results_file, metrics_file,
          argv, events, metric_files, invocation, runs, probe_args, writers>>

\* ------------------------------------------------------------ small helpers
Min2(a, b) == IF a <= b THEN a ELSE b

Range(s) == {s[i] : i \in 1..Len(s)}

\* int(t): a time in ticks truncated to whole seconds
IntSeconds(t) == t \div TicksPerSecond

\* int(t * 1000): a time in ticks as Unix milliseconds
Millis(t) == t * (1000 \div TicksPerSecond)

\* round(b - a, 1): a difference of two times, in tenths of a second
RoundedDuration(a, b) == b - a

\* cliargs.duration etc. are seconds; the clock counts ticks
Seconds(n) == n * TicksPerSecond

Vlans == cliargs.start_vlan .. cliargs.end_vlan

\* ------------------------------------------------------------ probe parsing
\* str.isdigit() on the field values the inputs use
IsDigit(f) == f \in {"0", "1", "3", "10", "12"}

\* str.lower() on the probe kinds the inputs use
Lower(f) ==
  CASE f = "HTTP" -> "http"
    [] f = "TCP" -> "tcp"
    [] f = "EXEC" -> "exec"
    [] f = "OFF" -> "off"
    [] OTHER -> f

ProbePrefixes ==
  <<"initialDelaySeconds:", "periodSeconds:", "timeoutSeconds:", "failureThreshold:",
    "successThreshold:">>

ProbeLine(k, v) == [key |-> k, value |-> v]

\* parse_probe_args with an unrecognised kind let through
parse_probe_args_Mutant(split_args, path, command_words) ==
  LET n == Len(split_args)
      numeric == [i \in 1..(n - 1) |-> ProbeLine(ProbePrefixes[i], split_args[i + 1])]
      bad_field == \E i \in 2..n : ~IsDigit(split_args[i])
      kind == Lower(split_args[1])
      Fail == [exit |-> TRUE, lines |-> <<>>]
  IN  IF n > MaxProbeFields THEN Fail
      ELSE IF n > 1 /\ bad_field THEN Fail
      ELSE IF kind = "http"
        THEN [exit |-> FALSE,
              lines |-> numeric \o <<ProbeLine("httpGet:", ""), ProbeLine("  path:", path)>>]
      ELSE IF kind = "tcp"
        THEN [exit |-> FALSE, lines |-> Append(numeric, ProbeLine("tcpSocket:", ""))]
      ELSE IF kind = "exec"
        THEN [exit |-> FALSE,
              lines |-> numeric \o <<ProbeLine("exec:", ""), ProbeLine("  command:", "")>>
                        \o [i \in 1..Len(command_words) |-> ProbeLine("  - ", command_words[i])]]
      ELSE IF kind = "off" THEN [exit |-> FALSE, lines |-> <<>>]
      ELSE [exit |-> FALSE, lines |-> numeric]

\* parse_probe_args: split_args is args.split(","), command_words is command.split("\n").
\* exit = TRUE stands for sys.exit(1).
parse_probe_args(split_args, path, command_words) ==
  LET n == Len(split_args)
      numeric == [i \in 1..(n - 1) |-> ProbeLine(ProbePrefixes[i], split_args[i + 1])]
      bad_field == \E i \in 2..n : ~IsDigit(split_args[i])
      kind == Lower(split_args[1])
      Fail == [exit |-> TRUE, lines |-> <<>>]
  IN  IF n > MaxProbeFields THEN Fail
      ELSE IF n > 1 /\ bad_field THEN Fail
      ELSE IF kind = "http"
        THEN [exit |-> FALSE,
              lines |-> numeric \o <<ProbeLine("httpGet:", ""), ProbeLine("  path:", path)>>]
      ELSE IF kind = "tcp"
        THEN [exit |-> FALSE, lines |-> Append(numeric, ProbeLine("tcpSocket:", ""))]
      ELSE IF kind = "exec"
        THEN [exit |-> FALSE,
              lines |-> numeric \o <<ProbeLine("exec:", ""), ProbeLine("  command:", "")>>
                        \o [i \in 1..Len(command_words) |-> ProbeLine("  - ", command_words[i])]]
      ELSE IF kind = "off" THEN [exit |-> FALSE, lines |-> <<>>]
      ELSE Fail

\* --no-probes rewrites the three probe settings before they are parsed
EffectiveProbe(args, setting) == IF args.no_probes THEN <<"off">> ELSE setting

\* main()'s three parse_probe_args calls, in order
ProbeCalls(args) ==
  [startup |-> parse_probe_args(EffectiveProbe(args, args.startup_probe), "/livez",
                                <<"test", "-f", "/tmp/startup">>),
   liveness |-> parse_probe_args(EffectiveProbe(args, args.liveness_probe), "/livez",
                                 <<"test", "-f", "/tmp/liveness">>),
   readiness |-> parse_probe_args(EffectiveProbe(args, args.readiness_probe), "/readyz",
                                  <<"test", "-f", "/tmp/readiness">>)]

ProbesRejected(args) == \E p \in DOMAIN ProbeCalls(args) : ProbeCalls(args)[p].exit

ParsedProbes(args) == [p \in DOMAIN ProbeCalls(args) |-> ProbeCalls(args)[p].lines]

\* ------------------------------------------------------- impairment parsing
Impairment(f, v) == [flag |-> f, value |-> v]

\* parse_tc_netem_args: the impairments in the dict's insertion order
parse_tc_netem_args(args) ==
  (IF args.latency > 0 THEN <<Impairment("delay", args.latency)>> ELSE <<>>)
  \o (IF args.packet_loss > 0 THEN <<Impairment("loss", args.packet_loss)>> ELSE <<>>)
  \o (IF args.bandwidth_limit > 0 THEN <<Impairment("rate", args.bandwidth_limit)>> ELSE <<>>)

netem_impairments == parse_tc_netem_args(cliargs)

\* ------------------------------------------------------- external commands
\* One flag of a command line with its value
Arg(f, v) == [flag |-> f, value |-> v]

\* The sub-interface "<interface>.<vlan>" a command names, NoDev for the others
Dev(v) == [interface |-> cliargs.interface, vlan |-> v]

NoDev == [interface |-> "", vlan |-> 0]

\* command(): one entry of the log per call. In a dry run the command line is
\* prefixed with echo, so nothing but echo runs.
Command(name, dev, args, rc) ==
  [name |-> name, dev |-> dev, args |-> args, rc |-> rc, echo |-> cliargs.dry_run]

\* An echoed command returning what the real tool would
ReturnCodes_Mutant == {0, 1}

\* The statuses command() can return: echo returns 0, a real tool anything
ReturnCodes == IF cliargs.dry_run THEN {0} ELSE {0, 1}

\* What the network tools do to one sub-interface when they return 0
Applicable(name, l) ==
  CASE name = "tc qdisc add" -> ~l.netem
    [] name = "tc qdisc del" -> l.netem
    [] name = "iptables -D" -> l.drop_rules > 0
    [] OTHER -> TRUE

Effect(name, l) ==
  CASE name = "tc qdisc add" -> [l EXCEPT !.netem = TRUE]
    [] name = "tc qdisc del" -> [l EXCEPT !.netem = FALSE]
    [] name = "iptables -A" -> [l EXCEPT !.drop_rules = @ + 1]
    [] name = "iptables -D" -> [l EXCEPT !.drop_rules = @ - 1]
    [] name = "ip link set down" -> [l EXCEPT !.admin_up = FALSE]
    [] name = "ip link set up" -> [l EXCEPT !.admin_up = TRUE]
    [] OTHER -> l

\* The statuses the environment may give the commands of one per-VLAN pass: a
\* real tool returns 0 only where it can do what it is asked.
PassStatuses(name) ==
  {rcs \in [Vlans -> ReturnCodes] :
     \A v \in Vlans : rcs[v] = 0 /\ ~cliargs.dry_run => Applicable(name, links[v])}

\* for vlan in range(start_vlan, end_vlan + 1): one command per VLAN in
\* ascending order; a nonzero status ends the pass (and the process) unless
\* errors are ignored. st = [cmds, links, failed].
RECURSIVE VlanPass(_, _, _, _, _, _, _)
VlanPass(name, args, rcs, ignore_errors, v, last, st) ==
  IF v > last \/ st.failed THEN st
  ELSE VlanPass(name, args, rcs, ignore_errors, v + 1, last,
         [cmds |-> Append(st.cmds, Command(name, Dev(v), args, rcs[v])),
          links |-> IF rcs[v] = 0 /\ ~cliargs.dry_run
                      THEN [st.links EXCEPT ![v] = Effect(name, @)]
                      ELSE st.links,
          failed |-> rcs[v] # 0 /\ ~ignore_errors])

PassFrom(st0, name, args, rcs, ignore_errors) ==
  VlanPass(name, args, rcs, ignore_errors, cliargs.start_vlan, cliargs.end_vlan, st0)

Here == [cmds |-> cmds, links |-> links, failed |-> FALSE]

apply_tc_netem_Mutant(st0, rcs) == PassFrom(st0, "tc qdisc add", netem_impairments, rcs, TRUE)

\* apply_tc_netem: every configured impairment in one tc command per VLAN
apply_tc_netem(st0, rcs) == PassFrom(st0, "tc qdisc add", netem_impairments, rcs, FALSE)

remove_tc_netem_Mutant(st0, rcs, ignore_errors) ==
  VlanPass("tc qdisc del", <<>>, rcs, ignore_errors, cliargs.start_vlan, cliargs.end_vlan - 1,
           st0)

\* remove_tc_netem
remove_tc_netem(st0, rcs, ignore_errors) ==
  PassFrom(st0, "tc qdisc del", <<>>, rcs, ignore_errors)

FlapDownCommand == IF cliargs.link_flap_firewall THEN "iptables -A" ELSE "ip link set down"

\* The bring-up made with ip link whatever the flap method is
FlapUpCommand_Mutant == "ip link set up"

FlapUpCommand == IF cliargs.link_flap_firewall THEN "iptables -D" ELSE "ip link set up"

\* flap_links_down going on to the next VLAN after a nonzero status
flap_links_down_Mutant(st0, rcs) == PassFrom(st0, FlapDownCommand, <<>>, rcs, TRUE)

\* flap_links_down
flap_links_down(st0, rcs) == PassFrom(st0, FlapDownCommand, <<>>, rcs, FALSE)

\* flap_links_up ending the pass at the first nonzero status
flap_links_up_Mutant(st0, rcs, ignore_errors) == PassFrom(st0, FlapUpCommand, <<>>, rcs, FALSE)

\* flap_links_up
flap_links_up(st0, rcs, ignore_errors) == PassFrom(st0, FlapUpCommand, <<>>, rcs, ignore_errors)

\* The time the commands from log c0 to log c1 took
Elapsed(c0, c1) == (Len(c1) - Len(c0)) * cmd_ticks

\* ------------------------------------------------------------------ inputs
ProbeInputs ==
  { <<"http", "0", "10", "1", "12">>, <<"off">>, <<"TCP", "3">>, <<"exec", "0", "10">>,
    <<"OFF", "3">>, <<"http", "x">>, <<"off", "ten">>, <<"grpc", "1">>,
    <<"http", "0", "10", "1", "3", "1", "12">> }

\* (latency, packet_loss, bandwidth_limit)
NetemInputs == { <<0, 0, 0>>, <<0, 5, 0>>, <<50, 5, 1000>> }

MetricLists == { <<"kubeletCPU">>, <<"kubeletCPU", "crioMemory">>, <<>> }

\* argparse's defaults, with the bounded VLAN range, duration and metric list
BaseArgs ==
  [no_workload_phase |-> FALSE, no_measurement_phase |-> FALSE, no_cleanup_phase |-> FALSE,
   no_metrics_phase |-> FALSE, no_probes |-> FALSE,
   startup_probe |-> <<"http", "0", "10", "1", "12">>,
   liveness_probe |-> <<"http", "0", "10", "1", "3">>,
   readiness_probe |-> <<"http", "0", "10", "1", "3", "1">>,
   duration |-> 1, interface |-> "ens1f1",
   start_vlan |-> DefaultStartVlan, end_vlan |-> DefaultStartVlan + NumVlans - 1,
   latency |-> 0, packet_loss |-> 0, bandwidth_limit |-> 0,
   link_flap_down |-> 0, link_flap_up |-> 0, link_flap_firewall |-> FALSE,
   link_flap_network |-> "198.18.10.0/24",
   metrics_profile |-> "metrics.yaml", prometheus_url |-> "", prometheus_token |-> "",
   metrics |-> <<"kubeletCPU">>, csv_title |-> "untitled", index_server |-> "",
   namespaces |-> 1, deployments |-> 1, pods |-> 1, containers |-> 1, service |-> FALSE,
   route |-> FALSE, configmaps |-> 0, secrets |-> 0,
   container_image |-> "quay.io/redhat-performance/test-gohttp-probe:v0.0.2",
   cpu_requests |-> 0, memory_requests |-> 0, cpu_limits |-> 0, memory_limits |-> 0,
   shared_selectors |-> 0, unique_selectors |-> 0, tolerations |-> FALSE,
   dry_run |-> FALSE, reset |-> FALSE]

\* Every combination of the phase flags, with reset, dry run and the
\* Prometheus settings given or to be looked up
PhaseArgs ==
  { [BaseArgs EXCEPT !.no_workload_phase = w, !.no_measurement_phase = m,
                     !.no_cleanup_phase = c, !.no_metrics_phase = x,
                     !.reset = r, !.dry_run = d, !.duration = du,
                     !.prometheus_url = IF p THEN "https://prometheus" ELSE "",
                     !.prometheus_token = IF p THEN "token" ELSE ""] :
      w \in BOOLEAN, m \in BOOLEAN, c \in BOOLEAN, x \in BOOLEAN, r \in BOOLEAN,
      d \in BOOLEAN, p \in BOOLEAN, du \in 0..1 }

\* The probe settings, the metrics profile and the metric list
ConfigArgs ==
  { [BaseArgs EXCEPT !.startup_probe = sp, !.readiness_probe = rp, !.no_probes = np,
                     !.metrics_profile = mp, !.metrics = ml] :
      sp \in ProbeInputs, rp \in {BaseArgs.readiness_probe, <<"bogus">>}, np \in BOOLEAN,
      mp \in {"metrics.yaml", "missing.yaml"}, ml \in MetricLists }

\* The Measurement phase's settings, with the other phases all on or all off
MeasurementArgs ==
  { [BaseArgs EXCEPT !.no_workload_phase = o, !.no_cleanup_phase = o, !.no_metrics_phase = o,
                     !.prometheus_url = "https://prometheus", !.prometheus_token = "token",
                     !.duration = du, !.latency = n[1], !.packet_loss = n[2],
                     !.bandwidth_limit = n[3], !.link_flap_down = fd, !.link_flap_up = fu,
                     !.link_flap_firewall = fw] :
      o \in BOOLEAN, du \in 0..MaxDuration, n \in NetemInputs,
      fd \in 0..MaxFlap, fu \in 0..MaxFlap, fw \in BOOLEAN }

\* The link-flap options of a run whose Measurement phase is disabled
SkippedMeasurementArgs ==
  { [BaseArgs EXCEPT !.no_measurement_phase = TRUE,
                     !.prometheus_url = "https://prometheus", !.prometheus_token = "token",
                     !.link_flap_down = fd, !.link_flap_up = fu, !.link_flap_firewall = fw] :
      fd \in 0..MaxFlap, fu \in 0..MaxFlap, fw \in BOOLEAN }

Inputs == PhaseArgs \cup ConfigArgs \cup MeasurementArgs \cup SkippedMeasurementArgs

\* pathlib.Path(metrics_profile).is_file(), here or beside the script
ProfileFound(profile) == profile = "metrics.yaml"

UnboundTimes ==
  [start_time |-> Unbound, workload_start_time |-> Unbound, workload_end_time |-> Unbound,
   measurement_start_time |-> Unbound, measurement_expected_end_time |-> Unbound,
   measurement_end_time |-> Unbound, cleanup_start_time |-> Unbound,
   cleanup_end_time |-> Unbound, metrics_start_time |-> Unbound,
   metrics_end_time |-> Unbound, end_time |-> Unbound]

ZeroCounts_Mutant ==
  [nodenotready_node_controller_count |-> 0, nodenotready_kubelet_count |-> 0,
   nodeready_count |-> 0, marked_evictions |-> 0, killed_pod |-> 1]

ZeroCounts ==
  [nodenotready_node_controller_count |-> 0, nodenotready_kubelet_count |-> 0,
   nodeready_count |-> 0, marked_evictions |-> 0, killed_pod |-> 0]

InitialFlap ==
  [flap_links |-> FALSE, links_down |-> FALSE, next_flap_time |-> Unbound,
   link_flap_count |-> 0, current_time |-> Unbound]

NoFile == [exists |-> FALSE, rows |-> <<>>]

\* Every sub-interface up, with no DROP rule and no netem qdisc
CleanLinks ==
  [v \in BaseArgs.start_vlan .. BaseArgs.end_vlan |->
     [admin_up |-> TRUE, drop_rules |-> 0, netem |-> FALSE]]

\* The state in which main() is entered, for options drawn from Args and the
\* sub-interfaces found in one of the states World
Started(Args, World) ==
  /\ cliargs \in Args
  /\ argv = cliargs
  /\ cmd_ticks \in 0..MaxCmdTicks
  /\ pc = "parse_args"
  /\ exit_code = Unbound
  /\ now = 0
  /\ process_start = Unbound
  /\ times = UnboundTimes
  /\ flap = InitialFlap
  /\ counts = ZeroCounts
  /\ cmds = <<>>
  /\ links \in World
  /\ pod_latencies = <<>>
  /\ metrics_data = <<>>
  /\ results_file = NoFile
  /\ metrics_file = NoFile
  /\ events = <<>>
  /\ metric_files = <<>>
  /\ invocation = 1
  /\ runs = <<>>
  /\ probe_args = <<>>
  /\ writers = <<>>

Init == Started(Inputs, {CleanLinks})

\* ----------------------------------------------------------------- actions
\* sys.exit(code); an uncaught exception also ends the process with status 1
Exit(code) ==
  /\ pc' = "exited"
  /\ exit_code' = code

\* main(), lines 563-693: the first clock reading, argparse, --no-probes and
\* the three parse_probe_args calls
ParseArgs ==
  /\ pc = "parse_args"
  /\ process_start' = now
  /\ times' = [times EXCEPT !.start_time = now]
  /\ cliargs' = [cliargs EXCEPT !.startup_probe = EffectiveProbe(cliargs, @),
                                !.liveness_probe = EffectiveProbe(cliargs, @),
                                !.readiness_probe = EffectiveProbe(cliargs, @)]
  /\ IF ProbesRejected(cliargs)
       THEN Exit(1) /\ probe_args' = probe_args
       ELSE pc' = "dispatch" /\ exit_code' = exit_code /\ probe_args' = ParsedProbes(cliargs)
  /\ UNCHANGED <<cmd_ticks, now, flap, counts, cmds, links, pod_latencies, metrics_data,
                 results_file, metrics_file,
                 argv, events, metric_files, invocation, runs, writers>>

Reset_Mutant ==
  /\ pc = "dispatch"
  /\ cliargs.reset
  /\ \E up \in PassStatuses(FlapUpCommand), del \in PassStatuses("tc qdisc del") :
       LET st1 == flap_links_up(Here, up, TRUE)
           st2 == remove_tc_netem(st1, del, FALSE)
       IN  /\ cmds' = st2.cmds
           /\ links' = st2.links
           /\ now' = now + Elapsed(cmds, st2.cmds)
           /\ IF st2.failed THEN Exit(1) ELSE Exit(0)
  /\ UNCHANGED <<cliargs, cmd_ticks, process_start, times, flap, counts, pod_latencies,
                 metrics_data, results_file, metrics_file,
                 argv, events, metric_files, invocation, runs, probe_args, writers>>

\* --reset: bring every link up and remove every impairment, ignoring errors
Reset ==
  /\ pc = "dispatch"
  /\ cliargs.reset
  /\ \E up \in PassStatuses(FlapUpCommand), del \in PassStatuses("tc qdisc del") :
       LET st1 == flap_links_up(Here, up, TRUE)
           st2 == remove_tc_netem(st1, del, TRUE)
       IN  /\ cmds' = st2.cmds
           /\ links' = st2.links
           /\ now' = now + Elapsed(cmds, st2.cmds)
  /\ Exit(0)
  /\ UNCHANGED <<cliargs, cmd_ticks, process_start, times, flap, counts, pod_latencies,
                 metrics_data, results_file, metrics_file,
                 argv, events, metric_files, invocation, runs, probe_args, writers>>

NoPhases_Mutant ==
  /\ cliargs.no_workload_phase /\ cliargs.no_measurement_phase /\ cliargs.no_cleanup_phase
  /\ cliargs.no_metrics_phase

NoPhases ==
  cliargs.no_workload_phase /\ cliargs.no_measurement_phase /\ cliargs.no_cleanup_phase

\* "No meaningful phases enabled. Exiting..."
NoMeaningfulPhases ==
  /\ pc = "dispatch"
  /\ ~cliargs.reset
  /\ NoPhases
  /\ Exit(0)
  /\ UNCHANGED <<cliargs, cmd_ticks, now, process_start, times, flap, counts, cmds, links,
                 pod_latencies, metrics_data, results_file, metrics_file,
                 argv, events, metric_files, invocation, runs, probe_args, writers>>

ValidatedFlap_Mutant(args, impairments) ==
  IF args.no_measurement_phase THEN "off"
  ELSE IF \/ args.link_flap_down = 0 /\ args.link_flap_up > 0
          \/ args.link_flap_down > 0 /\ args.link_flap_up = 0 THEN "exit"
  ELSE IF args.link_flap_down > 0 /\ args.link_flap_up > 0 THEN "on"
  ELSE "off"

\* The link-flap arguments as main() validates them: "exit", or flap_links
ValidatedFlap(args, impairments) ==
  IF args.no_measurement_phase THEN "off"
  ELSE IF \/ args.link_flap_down = 0 /\ args.link_flap_up > 0
          \/ args.link_flap_down > 0 /\ args.link_flap_up = 0 THEN "exit"
  ELSE IF args.link_flap_down > 0 /\ args.link_flap_up > 0
    THEN IF args.link_flap_firewall THEN "on"
         ELSE IF Len(impairments) > 0 THEN "off" ELSE "on"
  ELSE "off"

\* "Validate link flap args"
ValidateFlap ==
  /\ pc = "dispatch"
  /\ ~cliargs.reset
  /\ ~NoPhases
  /\ LET v == ValidatedFlap(cliargs, netem_impairments)
     IN  /\ flap' = [flap EXCEPT !.flap_links = (v = "on")]
         /\ IF v = "exit" THEN Exit(1)
            ELSE pc' = "validate_metrics" /\ exit_code' = exit_code
  /\ UNCHANGED <<cliargs, cmd_ticks, now, process_start, times, counts, cmds, links,
                 pod_latencies, metrics_data, results_file, metrics_file,
                 argv, events, metric_files, invocation, runs, probe_args, writers>>

\* "Validate metrics phase arguments": the metrics profile must exist; an unset
\* Prometheus URL or token is looked up with oc, and the Metrics phase is
\* disabled when either is still unset
ValidateMetrics ==
  /\ pc = "validate_metrics"
  /\ \E rc_url \in ReturnCodes, rc_token \in ReturnCodes :
       LET ask_url == cliargs.prometheus_url = ""
           url == IF ask_url /\ rc_url = 0 THEN "https://host" ELSE cliargs.prometheus_url
           ask_token == cliargs.prometheus_token = "" /\ url # ""
           token == IF ask_token /\ rc_token = 0 THEN "token" ELSE cliargs.prometheus_token
           log == (IF ask_url THEN <<Command("oc get route/prometheus-k8s", NoDev, <<>>, rc_url)>>
                   ELSE <<>>)
                  \o (IF ask_token
                        THEN <<Command("oc sa get-token", NoDev, <<>>, rc_token)>>
                        ELSE <<>>)
       IN  IF cliargs.no_metrics_phase
             THEN /\ pc' = "workload"
                  /\ UNCHANGED <<cliargs, cmds, now, exit_code>>
           ELSE IF ~ProfileFound(cliargs.metrics_profile)
             THEN /\ Exit(1)
                  /\ UNCHANGED <<cliargs, cmds, now>>
           ELSE /\ cliargs' = [cliargs EXCEPT !.prometheus_url = url,
                                              !.prometheus_token = token,
                                              !.no_metrics_phase = (url = "" \/ token = "")]
                /\ cmds' = cmds \o log
                /\ now' = now + Elapsed(cmds, cmds \o log)
                /\ pc' = "workload"
                /\ exit_code' = exit_code
  /\ UNCHANGED <<cmd_ticks, process_start, times, flap, counts, links, pod_latencies,
                 metrics_data, results_file, metrics_file,
                 argv, events, metric_files, invocation, runs, probe_args, writers>>

Fatal_Mutant(rc) == FALSE

\* if rc != 0: ... sys.exit(1)
Fatal(rc) == rc # 0

\* The value a phase's end time has before the phase runs, which it keeps when
\* the phase is disabled
InitialWorkloadEnd(t) == t.start_time

InitialMeasurementEnd_Mutant(t) == t.start_time

InitialMeasurementEnd(t) == t.workload_end_time

InitialCleanupEnd(t) == t.measurement_end_time

\* "Workload Phase": workload_end_time starts as start_time; an enabled phase
\* runs the create job and is fatal on a nonzero status
WorkloadPhase ==
  /\ pc = "workload"
  /\ \E rc \in ReturnCodes :
       IF cliargs.no_workload_phase
         THEN /\ times' = [times EXCEPT !.workload_end_time = InitialWorkloadEnd(times)]
              /\ pc' = "measurement"
              /\ UNCHANGED <<cmds, now, exit_code>>
         ELSE /\ cmds' = Append(cmds, Command("kube-burner init create", NoDev, <<>>, rc))
              /\ now' = now + cmd_ticks
              /\ IF Fatal(rc)
                   THEN /\ times' = [times EXCEPT !.workload_end_time = InitialWorkloadEnd(times),
                                                  !.workload_start_time = now]
                        /\ Exit(1)
                   ELSE /\ times' = [times EXCEPT !.workload_start_time = now,
                                                  !.workload_end_time = now']
                        /\ pc' = "measurement"
                        /\ exit_code' = exit_code
  /\ UNCHANGED <<cliargs, cmd_ticks, process_start, flap, counts, links, pod_latencies,
                 metrics_data, results_file, metrics_file,
                 argv, events, metric_files, invocation, runs, probe_args, writers>>

\* The statuses of a pass that is made only when cond holds
StatusesIf(cond, name) == IF cond THEN PassStatuses(name) ELSE {[v \in Vlans |-> 0]}

PassIf(cond, st0, st1) == IF cond /\ ~st0.failed THEN st1 ELSE st0

\* The phase entered with the flap count left at 0
MeasurementBegin_Mutant ==
  /\ pc = "measurement"
  /\ counts' = ZeroCounts
  /\ IF cliargs.no_measurement_phase
       THEN /\ times' = [times EXCEPT !.measurement_end_time = InitialMeasurementEnd(times)]
            /\ flap' = [flap EXCEPT !.link_flap_count = 0]
            /\ pc' = "cleanup"
            /\ UNCHANGED <<cmds, links, now, exit_code>>
       ELSE \E add \in StatusesIf(Len(netem_impairments) > 0, "tc qdisc add"),
               down \in StatusesIf(flap.flap_links, FlapDownCommand) :
              LET st1 == PassIf(Len(netem_impairments) > 0, Here, apply_tc_netem(Here, add))
                  st2 == PassIf(flap.flap_links, st1, flap_links_down(st1, down))
                  after == now + Elapsed(cmds, st2.cmds)
              IN  /\ cmds' = st2.cmds
                  /\ links' = st2.links
                  /\ now' = after
                  /\ times' = [times EXCEPT
                       !.measurement_end_time = InitialMeasurementEnd(times),
                       !.measurement_start_time = now,
                       !.measurement_expected_end_time = now + Seconds(cliargs.duration)]
                  /\ IF st2.failed
                       THEN /\ flap' = [flap EXCEPT !.link_flap_count =
                                          IF flap.flap_links /\ ~st1.failed THEN 1 ELSE 0]
                            /\ Exit(1)
                       ELSE /\ flap' = [flap EXCEPT
                                 !.link_flap_count = 0,
                                 !.links_down = flap.flap_links,
                                 !.next_flap_time =
                                    IF flap.flap_links
                                      THEN after + Seconds(cliargs.link_flap_down)
                                      ELSE Unbound,
                                 !.current_time = after]
                            /\ pc' = "wait"
                            /\ exit_code' = exit_code
  /\ UNCHANGED <<cliargs, cmd_ticks, process_start, pod_latencies, metrics_data,
                 results_file, metrics_file,
                 argv, events, metric_files, invocation, runs, probe_args, writers>>

\* "Measurement phase", up to the wait loop: the counters are zeroed and
\* measurement_end_time starts as workload_end_time; an enabled phase records
\* its start and expected end, applies the sustained impairments and, with link
\* flapping on, brings the links down for the first time
MeasurementBegin ==
  /\ pc = "measurement"
  /\ counts' = ZeroCounts
  /\ IF cliargs.no_measurement_phase
       THEN /\ times' = [times EXCEPT !.measurement_end_time = InitialMeasurementEnd(times)]
            /\ flap' = [flap EXCEPT !.link_flap_count = 0]
            /\ pc' = "cleanup"
            /\ UNCHANGED <<cmds, links, now, exit_code>>
       ELSE \E add \in StatusesIf(Len(netem_impairments) > 0, "tc qdisc add"),
               down \in StatusesIf(flap.flap_links, FlapDownCommand) :
              LET st1 == PassIf(Len(netem_impairments) > 0, Here, apply_tc_netem(Here, add))
                  st2 == PassIf(flap.flap_links, st1, flap_links_down(st1, down))
                  after == now + Elapsed(cmds, st2.cmds)
              IN  /\ cmds' = st2.cmds
                  /\ links' = st2.links
                  /\ now' = after
                  /\ times' = [times EXCEPT
                       !.measurement_end_time = InitialMeasurementEnd(times),
                       !.measurement_start_time = now,
                       !.measurement_expected_end_time = now + Seconds(cliargs.duration)]
                  /\ IF st2.failed
                       THEN /\ flap' = [flap EXCEPT !.link_flap_count =
                                          IF flap.flap_links /\ ~st1.failed THEN 1 ELSE 0]
                            /\ Exit(1)
                       ELSE /\ flap' = [flap EXCEPT
                                 !.link_flap_count = IF flap.flap_links THEN 1 ELSE 0,
                                 !.links_down = flap.flap_links,
                                 !.next_flap_time =
                                    IF flap.flap_links
                                      THEN after + Seconds(cliargs.link_flap_down)
                                      ELSE Unbound,
                                 !.current_time = after]
                            /\ pc' = "wait"
                            /\ exit_code' = exit_code
  /\ UNCHANGED <<cliargs, cmd_ticks, process_start, pod_latencies, metrics_data,
                 results_file, metrics_file,
                 argv, events, metric_files, invocation, runs, probe_args, writers>>

InWaitLoop_Mutant ==
  pc = "wait" /\ flap.current_time <= times.measurement_expected_end_time

InWaitLoop ==
  pc = "wait" /\ flap.current_time < times.measurement_expected_end_time

\* A toggle on every poll, whatever next_flap_time is
ToggleDue_Mutant == flap.flap_links

ToggleDue == flap.flap_links /\ flap.current_time >= flap.next_flap_time

\* One iteration during which the clock stands still
PollWait_Mutant ==
  /\ InWaitLoop
  /\ ~ToggleDue
  /\ now' = now
  /\ flap' = [flap EXCEPT !.current_time = now']
  /\ UNCHANGED <<cliargs, cmd_ticks, pc, exit_code, process_start, times, counts, cmds,
                 links, pod_latencies, metrics_data, results_file, metrics_file,
                 argv, events, metric_files, invocation, runs, probe_args, writers>>

\* One iteration of the wait loop with no toggle: sleep and read the clock
PollWait ==
  /\ InWaitLoop
  /\ ~ToggleDue
  /\ now' = now + SleepTicks
  /\ flap' = [flap EXCEPT !.current_time = now']
  /\ UNCHANGED <<cliargs, cmd_ticks, pc, exit_code, process_start, times, counts, cmds,
                 links, pod_latencies, metrics_data, results_file, metrics_file,
                 argv, events, metric_files, invocation, runs, probe_args, writers>>

\* One iteration that finds the links down and the toggle due: bring them up
PollFlapUp ==
  /\ InWaitLoop
  /\ ToggleDue
  /\ flap.links_down
  /\ \E up \in PassStatuses(FlapUpCommand) :
       LET st == flap_links_up(Here, up, FALSE)
           after == now + Elapsed(cmds, st.cmds)
       IN  /\ cmds' = st.cmds
           /\ links' = st.links
           /\ IF st.failed
                THEN /\ now' = after
                     /\ flap' = [flap EXCEPT !.links_down = FALSE]
                     /\ Exit(1)
                ELSE /\ now' = after + SleepTicks
                     /\ flap' = [flap EXCEPT !.links_down = FALSE,
                                             !.next_flap_time = after + Seconds(cliargs.link_flap_up),
                                             !.current_time = now']
                     /\ UNCHANGED <<pc, exit_code>>
  /\ UNCHANGED <<cliargs, cmd_ticks, process_start, times, counts, pod_latencies,
                 metrics_data, results_file, metrics_file,
                 argv, events, metric_files, invocation, runs, probe_args, writers>>

\* The links brought down whenever a toggle is due, down already or not
PollFlapDown_Mutant ==
  /\ InWaitLoop
  /\ ToggleDue
  /\ \E down \in PassStatuses(FlapDownCommand) :
       LET st == flap_links_down(Here, down)
           after == now + Elapsed(cmds, st.cmds)
       IN  /\ cmds' = st.cmds
           /\ links' = st.links
           /\ IF st.failed
                THEN /\ now' = after
                     /\ flap' = [flap EXCEPT !.links_down = TRUE, !.link_flap_count = @ + 1]
                     /\ Exit(1)
                ELSE /\ now' = after + SleepTicks
                     /\ flap' = [flap EXCEPT !.links_down = TRUE, !.link_flap_count = @ + 1,
                                             !.next_flap_time = after + Seconds(cliargs.link_flap_down),
                                             !.current_time = now']
                     /\ UNCHANGED <<pc, exit_code>>
  /\ UNCHANGED <<cliargs, cmd_ticks, process_start, times, counts, pod_latencies,
                 metrics_data, results_file, metrics_file,
                 argv, events, metric_files, invocation, runs, probe_args, writers>>

\* One iteration that finds the links up and the toggle due: bring them down
PollFlapDown ==
  /\ InWaitLoop
  /\ ToggleDue
  /\ ~flap.links_down
  /\ \E down \in PassStatuses(FlapDownCommand) :
       LET st == flap_links_down(Here, down)
           after == now + Elapsed(cmds, st.cmds)
       IN  /\ cmds' = st.cmds
           /\ links' = st.links
           /\ IF st.failed
                THEN /\ now' = after
                     /\ flap' = [flap EXCEPT !.links_down = TRUE, !.link_flap_count = @ + 1]
                     /\ Exit(1)
                ELSE /\ now' = after + SleepTicks
                     /\ flap' = [flap EXCEPT !.links_down = TRUE, !.link_flap_count = @ + 1,
                                             !.next_flap_time = after + Seconds(cliargs.link_flap_down),
                                             !.current_time = now']
                     /\ UNCHANGED <<pc, exit_code>>
  /\ UNCHANGED <<cliargs, cmd_ticks, process_start, times, counts, pod_latencies,
                 metrics_data, results_file, metrics_file,
                 argv, events, metric_files, invocation, runs, probe_args, writers>>

\* After the wait loop: force the links up ignoring errors, remove the
\* sustained impairments (fatal on a nonzero status), record measurement_end_time
MeasurementEnd ==
  /\ pc = "wait"
  /\ ~InWaitLoop
  /\ \E up \in StatusesIf(flap.flap_links, FlapUpCommand),
        del \in StatusesIf(Len(netem_impairments) > 0, "tc qdisc del") :
       LET st1 == PassIf(flap.flap_links, Here, flap_links_up(Here, up, TRUE))
           st2 == PassIf(Len(netem_impairments) > 0, st1, remove_tc_netem(st1, del, FALSE))
       IN  /\ cmds' = st2.cmds
           /\ links' = st2.links
           /\ now' = now + Elapsed(cmds, st2.cmds)
           /\ IF st2.failed
                THEN /\ Exit(1)
                     /\ UNCHANGED times
                ELSE /\ times' = [times EXCEPT !.measurement_end_time = now']
                     /\ pc' = "events"
                     /\ exit_code' = exit_code
  /\ UNCHANGED <<cliargs, cmd_ticks, process_start, flap, counts, pod_latencies,
                 metrics_data, results_file, metrics_file,
                 argv, events, metric_files, invocation, runs, probe_args, writers>>

\* ----------------------------------------------------------- event sampling
Event(reason, ts, component, namespace, message) ==
  [reason |-> reason, lastTimestamp |-> ts, component |-> component,
   namespace |-> namespace, message |-> message]

\* date_parser.parse(item['lastTimestamp']).timestamp(): the API server gives
\* lastTimestamp in whole seconds
last_timestamp_unix(item) == Seconds(item.lastTimestamp)

\* What the cluster's event store can hold when it is queried; ms is
\* measurement_start_time and T the second it falls in
EventStores(ms) ==
  LET T == IntSeconds(ms)
  IN  { <<>>,
        << Event("NodeNotReady", T - 5, "kubelet", "default", "Node is not ready"),
           Event("NodeNotReady", T + 1, "kubelet", "default", "Node is not ready"),
           Event("NodeNotReady", T + 10, "node-controller", "default", "Node is not ready"),
           Event("NodeReady", T, "kubelet", "default", "Node is ready"),
           Event("NodeReady", T + 2, "kubelet", "default", "Node is ready") >>,
        << Event("NodeNotReady", T + 1, "scheduler", "default", "Node is not ready"),
           Event("NodeNotReady", T, "node-controller", "default", "Node is not ready"),
           Event("NodeNotReady", T + 1, "kubelet", "openshift-etcd", "Node is not ready"),
           Event("NodeReady", T - 1, "kubelet", "default", "Node is ready"),
           Event("TaintManagerEviction", T - 10, "taint-controller", "boatload-1",
                 "Marking for deletion Pod boatload-1/pod-1"),
           Event("TaintManagerEviction", T + 5, "taint-controller", "boatload-2",
                 "Marking for deletion Pod boatload-2/pod-1"),
           Event("TaintManagerEviction", T + 5, "taint-controller", "boatload-2",
                 "Cancelling deletion of Pod boatload-2/pod-1"),
           Event("TaintManagerEviction", T + 5, "taint-controller", "kube-system",
                 "Marking for deletion Pod kube-system/pod-1"),
           Event("Killing", T - 10, "kubelet", "boatload-1", "Stopping container"),
           Event("Killing", T + 5, "kubelet", "kube-system", "Stopping container") >> }

\* re.compile("boatload-[0-9]+").search(namespace)
NsPatternMatches(namespace) == namespace \in {"boatload-1", "boatload-2"}

\* re.compile("Marking for deletion Pod").search(message)
EvictionPatternMatches(message) ==
  message \in {"Marking for deletion Pod boatload-1/pod-1",
               "Marking for deletion Pod boatload-2/pod-1",
               "Marking for deletion Pod kube-system/pod-1"}

\* oc get ev --field-selector reason=<reason> -o json: json_data['items'];
\* a dry run parses nothing and uses an empty list
Items(store, reason, all_namespaces) ==
  IF cliargs.dry_run THEN <<>>
  ELSE SelectSeq(store, LAMBDA e : e.reason = reason /\ (all_namespaces \/ e.namespace = "default"))

NodeNotReadyCount_Mutant(items, ms, component) ==
  Len(SelectSeq(items, LAMBDA e : last_timestamp_unix(e) > ms /\ e.component = component))

NodeNotReadyCount(items, ms, component) ==
  Len(SelectSeq(items, LAMBDA e : last_timestamp_unix(e) >= ms /\ e.component = component))

NodeReadyCount(items, ms) == Len(SelectSeq(items, LAMBDA e : last_timestamp_unix(e) >= ms))

MarkedEvictions(items) ==
  Len(SelectSeq(items, LAMBDA e : NsPatternMatches(e.namespace) /\ EvictionPatternMatches(e.message)))

KilledPods(items) == Len(SelectSeq(items, LAMBDA e : NsPatternMatches(e.namespace)))

\* The event queries with the NodeNotReady query issued a second time
EventQueries_Mutant ==
  <<"oc get ev NodeNotReady", "oc get ev NodeNotReady", "oc get ev TaintManagerEviction",
    "oc get ev Killing">>

EventQueries ==
  <<"oc get ev NodeNotReady", "oc get ev NodeReady", "oc get ev TaintManagerEviction",
    "oc get ev Killing">>

\* The event sampling going on to the Cleanup phase after a failed query
SampleEvents_Mutant ==
  /\ pc = "events"
  /\ \E store \in EventStores(times.measurement_start_time),
        failed \in (IF cliargs.dry_run THEN {0} ELSE 0..Len(EventQueries)) :
       LET issued == IF failed = 0 THEN Len(EventQueries) ELSE failed
           done(q) == failed = 0 \/ q < failed
           ms == times.measurement_start_time
           nnr == Items(store, "NodeNotReady", FALSE)
           nr == Items(store, "NodeReady", FALSE)
           ev == Items(store, "TaintManagerEviction", TRUE)
           ki == Items(store, "Killing", TRUE)
       IN  /\ cmds' = cmds \o [q \in 1..issued |->
                                 Command(EventQueries[q], NoDev, <<>>, IF q = failed THEN 1 ELSE 0)]
           /\ now' = now + issued * cmd_ticks
           /\ counts' =
                [nodenotready_node_controller_count |->
                   IF done(1) THEN NodeNotReadyCount(nnr, ms, "node-controller") ELSE 0,
                 nodenotready_kubelet_count |->
                   IF done(1) THEN NodeNotReadyCount(nnr, ms, "kubelet") ELSE 0,
                 nodeready_count |-> IF done(2) THEN NodeReadyCount(nr, ms) ELSE 0,
                 marked_evictions |-> IF done(3) THEN MarkedEvictions(ev) ELSE 0,
                 killed_pod |-> IF done(4) THEN KilledPods(ki) ELSE 0]
           /\ events' = IF cliargs.dry_run THEN <<>> ELSE store
           /\ IF FALSE THEN Exit(1) ELSE pc' = "cleanup" /\ exit_code' = exit_code
  /\ UNCHANGED <<cliargs, cmd_ticks, process_start, times, flap, links, pod_latencies,
                 metrics_data, results_file, metrics_file,
                 argv, metric_files, invocation, runs, probe_args, writers>>

\* "Post measurement" event counts: four queries in order, each fatal on a
\* nonzero status; failed is the first query that fails, 0 when none does
SampleEvents ==
  /\ pc = "events"
  /\ \E store \in EventStores(times.measurement_start_time),
        failed \in (IF cliargs.dry_run THEN {0} ELSE 0..Len(EventQueries)) :
       LET issued == IF failed = 0 THEN Len(EventQueries) ELSE failed
           done(q) == failed = 0 \/ q < failed
           ms == times.measurement_start_time
           nnr == Items(store, "NodeNotReady", FALSE)
           nr == Items(store, "NodeReady", FALSE)
           ev == Items(store, "TaintManagerEviction", TRUE)
           ki == Items(store, "Killing", TRUE)
       IN  /\ cmds' = cmds \o [q \in 1..issued |->
                                 Command(EventQueries[q], NoDev, <<>>, IF q = failed THEN 1 ELSE 0)]
           /\ now' = now + issued * cmd_ticks
           /\ counts' =
                [nodenotready_node_controller_count |->
                   IF done(1) THEN NodeNotReadyCount(nnr, ms, "node-controller") ELSE 0,
                 nodenotready_kubelet_count |->
                   IF done(1) THEN NodeNotReadyCount(nnr, ms, "kubelet") ELSE 0,
                 nodeready_count |-> IF done(2) THEN NodeReadyCount(nr, ms) ELSE 0,
                 marked_evictions |-> IF done(3) THEN MarkedEvictions(ev) ELSE 0,
                 killed_pod |-> IF done(4) THEN KilledPods(ki) ELSE 0]
           /\ events' = IF cliargs.dry_run THEN <<>> ELSE store
           /\ IF failed # 0 THEN Exit(1) ELSE pc' = "cleanup" /\ exit_code' = exit_code
  /\ UNCHANGED <<cliargs, cmd_ticks, process_start, times, flap, links, pod_latencies,
                 metrics_data, results_file, metrics_file,
                 argv, metric_files, invocation, runs, probe_args, writers>>

\* "Cleanup Phase": cleanup_end_time starts as measurement_end_time; an enabled
\* phase runs the delete job and is fatal on a nonzero status
CleanupPhase ==
  /\ pc = "cleanup"
  /\ \E rc \in ReturnCodes :
       IF cliargs.no_cleanup_phase
         THEN /\ times' = [times EXCEPT !.cleanup_end_time = InitialCleanupEnd(times)]
              /\ pc' = "metrics"
              /\ UNCHANGED <<cmds, now, exit_code>>
         ELSE /\ cmds' = Append(cmds, Command("kube-burner init delete", NoDev, <<>>, rc))
              /\ now' = now + cmd_ticks
              /\ IF Fatal(rc)
                   THEN /\ times' = [times EXCEPT !.cleanup_end_time = InitialCleanupEnd(times),
                                                  !.cleanup_start_time = now]
                        /\ Exit(1)
                   ELSE /\ times' = [times EXCEPT !.cleanup_start_time = now,
                                                  !.cleanup_end_time = now']
                        /\ pc' = "metrics"
                        /\ exit_code' = exit_code
  /\ UNCHANGED <<cliargs, cmd_ticks, process_start, flap, counts, links, pod_latencies,
                 metrics_data, results_file, metrics_file,
                 argv, events, metric_files, invocation, runs, probe_args, writers>>

\* The window of the index job: main() reuses start_time and end_time for it
IndexStart(args, t) ==
  IF ~args.no_workload_phase THEN t.workload_start_time
  ELSE IF ~args.no_measurement_phase THEN t.measurement_start_time
  ELSE t.cleanup_start_time

IndexEnd_Mutant(args, t) ==
  IF ~args.no_measurement_phase THEN t.measurement_end_time
  ELSE IF ~args.no_cleanup_phase THEN t.cleanup_end_time
  ELSE t.workload_end_time

IndexEnd(args, t) ==
  IF ~args.no_cleanup_phase THEN t.cleanup_end_time
  ELSE IF ~args.no_measurement_phase THEN t.measurement_end_time
  ELSE t.workload_end_time

\* The Metrics phase run whether or not it is enabled
MetricsPhase_Mutant ==
  /\ pc = "metrics"
  /\ \E rc \in ReturnCodes :
       IF FALSE
         THEN UNCHANGED <<cmds, now, times>>
         ELSE LET s == IndexStart(cliargs, times)
                  e == IndexEnd(cliargs, times)
              IN  /\ cmds' = Append(cmds,
                        Command("kube-burner index", NoDev,
                                <<Arg("--start", IntSeconds(s)),
                                  Arg("--end", IntSeconds(e))>>, rc))
                  /\ now' = now + cmd_ticks
                  /\ times' = [times EXCEPT !.metrics_start_time = now, !.start_time = s,
                                            !.end_time = e, !.metrics_end_time = now']
  /\ pc' = "collect"
  /\ UNCHANGED <<cliargs, cmd_ticks, exit_code, process_start, flap, counts, links,
                 pod_latencies, metrics_data, results_file, metrics_file,
                 argv, events, metric_files, invocation, runs, probe_args, writers>>

\* "Metrics Phase": the index job over [int(start_time), int(end_time)]; a
\* nonzero status is logged and the run goes on
MetricsPhase ==
  /\ pc = "metrics"
  /\ \E rc \in ReturnCodes :
       IF cliargs.no_metrics_phase
         THEN UNCHANGED <<cmds, now, times>>
         ELSE LET s == IndexStart(cliargs, times)
                  e == IndexEnd(cliargs, times)
              IN  /\ cmds' = Append(cmds,
                        Command("kube-burner index", NoDev,
                                <<Arg("--start", IntSeconds(s)),
                                  Arg("--end", IntSeconds(e))>>, rc))
                  /\ now' = now + cmd_ticks
                  /\ times' = [times EXCEPT !.metrics_start_time = now, !.start_time = s,
                                            !.end_time = e, !.metrics_end_time = now']
  /\ pc' = "collect"
  /\ UNCHANGED <<cliargs, cmd_ticks, exit_code, process_start, flap, counts, links,
                 pod_latencies, metrics_data, results_file, metrics_file,
                 argv, events, metric_files, invocation, runs, probe_args, writers>>

\* ------------------------------------------------------------- aggregation
RECURSIVE Sum(_)
Sum(s) == IF s = <<>> THEN 0 ELSE Head(s) + Sum(Tail(s))

RECURSIVE Insert(_, _)
Insert(x, s) ==
  IF s = <<>> THEN <<x>>
  ELSE IF x <= Head(s) THEN <<x>> \o s
  ELSE <<Head(s)>> \o Insert(x, Tail(s))

RECURSIVE Sorted(_)
Sorted(s) == IF s = <<>> THEN <<>> ELSE Insert(Head(s), Sorted(Tail(s)))

\* A rational number num / den
Ratio(n, d) == [num |-> n, den |-> d]

Percentile_Mutant(values, q) ==
  LET sorted == Sorted(values)
      rank == (Len(values) - 1) * q
      lo == rank \div 100
  IN  Ratio(sorted[lo + 1] * 100, 100)

\* np.percentile(values, q): linear interpolation between the two order
\* statistics around the rank (n - 1) * q / 100 of the sorted series
Percentile(values, q) ==
  LET sorted == Sorted(values)
      rank == (Len(values) - 1) * q
      lo == rank \div 100
      part == rank % 100
      hi == Min2(lo + 1, Len(values) - 1)
  IN  Ratio(sorted[lo + 1] * 100 + part * (sorted[hi + 1] - sorted[lo + 1]), 100)

\* The seven statistics main() keeps of one metric's values
Aggregate(values) ==
  [len |-> Len(values),
   min |-> Sorted(values)[1],
   avg |-> Ratio(Sum(values), Len(values)),
   max |-> Sorted(values)[Len(values)],
   P50 |-> Percentile(values, 50),
   P95 |-> Percentile(values, 95),
   P99 |-> Percentile(values, 99)]

\* What the index job can leave for one metric: no file, or a file of values
MetricFiles ==
  { [present |-> FALSE, values |-> <<>>], [present |-> TRUE, values |-> <<>>],
    [present |-> TRUE, values |-> <<7>>], [present |-> TRUE, values |-> <<3, 1, 2>>],
    [present |-> TRUE, values |-> <<1, 2, 3, 4, 5, 6, 7, 8, 9, 10>>] }

\* The status of the index job, when one was issued
IndexStatus ==
  LET idx == SelectSeq(cmds, LAMBDA c : c.name = "kube-burner index")
  IN  IF idx = <<>> THEN 0 ELSE idx[Len(idx)].rc

kb_measurements == <<"PodScheduled", "Initialized", "ContainersReady", "Ready">>

kb_stats == <<"avg", "max", "P50", "P95", "P99">>

Quantile(name, avg, max, p50, p95, p99) ==
  [quantileName |-> name, avg |-> avg, max |-> max, P50 |-> p50, P95 |-> p95, P99 |-> p99]

\* What boatload-podLatency-summary.json can hold after a create job
PodSummaries ==
  { << Quantile("PodScheduled", 1, 2, 1, 2, 2), Quantile("Initialized", 3, 4, 3, 4, 4),
       Quantile("ContainersReady", 5, 6, 5, 6, 6), Quantile("Ready", 7, 9, 7, 8, 9) >>,
    << Quantile("Ready", 7, 9, 7, 8, 9), Quantile("PodReadyToStartContainers", 2, 2, 2, 2, 2) >> }

ZeroLatencies_Mutant == [m \in Range(kb_measurements) |-> [st \in Range(kb_stats) |-> 1]]

ZeroLatencies == [m \in Range(kb_measurements) |-> [st \in Range(kb_stats) |-> 0]]

\* pod_latencies after the summary was read over the zero defaults
ReadLatencies(summary) ==
  [m \in Range(kb_measurements) \cup {summary[i].quantileName : i \in 1..Len(summary)} |->
     IF \E i \in 1..Len(summary) : summary[i].quantileName = m
       THEN LET i == CHOOSE j \in 1..Len(summary) :
                       /\ summary[j].quantileName = m
                       /\ \A k \in (j + 1)..Len(summary) : summary[k].quantileName # m
            IN  [st \in Range(kb_stats) |-> summary[i][st]]
       ELSE ZeroLatencies[m]]

ReadsSummary == ~cliargs.no_workload_phase /\ ~cliargs.dry_run

\* The metrics files read whenever the run is not a dry run
ReadsMetrics_Mutant == ~cliargs.dry_run

ReadsMetrics == ~cliargs.no_metrics_phase /\ ~cliargs.dry_run

ReadMetric_Mutant(file) ==
  IF ~file.present THEN [raised |-> TRUE, data |-> <<>>]
  ELSE IF file.values = <<>>
    THEN [raised |-> FALSE,
          data |-> [len |-> 0, min |-> 0, avg |-> Ratio(0, 1), max |-> 0, P50 |-> Ratio(0, 1),
                    P95 |-> Ratio(0, 1), P99 |-> Ratio(0, 1)]]
  ELSE [raised |-> FALSE, data |-> Aggregate(file.values)]

\* One metric's file read and aggregated: open() raises on a missing file and
\* np.min on a series with no value
ReadMetric(file) ==
  IF ~file.present \/ file.values = <<>> THEN [raised |-> TRUE, data |-> <<>>]
  ELSE [raised |-> FALSE, data |-> Aggregate(file.values)]

\* end_time, the podLatency summary and the metric files: a metric file that
\* is missing (open raises) or holds no value (np.min raises) ends the process
\* with a traceback
CollectFrom(Files) ==
  /\ pc = "collect"
  /\ times' = [times EXCEPT !.end_time = now]
  /\ \E summary \in (IF ReadsSummary THEN PodSummaries ELSE {<<>>}),
        files \in (IF ReadsMetrics THEN [Range(cliargs.metrics) -> Files] ELSE {<<>>}) :
       /\ ReadsMetrics /\ IndexStatus = 0 => \A m \in Range(cliargs.metrics) : files[m].present
       /\ pod_latencies' = ReadLatencies(summary)
       /\ metric_files' = IF ReadsMetrics THEN files ELSE metric_files
       /\ IF ReadsMetrics /\ \E m \in Range(cliargs.metrics) : ReadMetric(files[m]).raised
            THEN /\ Exit(1)
                 /\ UNCHANGED metrics_data
            ELSE /\ metrics_data' =
                      IF ReadsMetrics
                        THEN [m \in Range(cliargs.metrics) |-> ReadMetric(files[m]).data]
                        ELSE metrics_data
                 /\ pc' = "report"
                 /\ exit_code' = exit_code
  /\ UNCHANGED <<cliargs, cmd_ticks, now, process_start, flap, counts, cmds, links,
                 results_file, metrics_file,
                 argv, events, invocation, runs, probe_args, writers>>

Collect == CollectFrom(MetricFiles)

\* ------------------------------------------------------------------ output
ResultsHeader ==
  <<
    "start_ts", "workload_complete_ts", "measurement_complete_ts", "cleanup_complete_ts",
    "end_ts", "start_time", "workload_complete_time", "measurement_complete_time",
    "cleanup_complete_time", "end_time", "title", "workload_uuid", "workload_duration",
    "measurement_duration", "cleanup_duration", "metrics_duration", "total_duration",
    "namespaces", "deployments", "pods", "containers", "services", "routes", "configmaps",
    "secrets", "image", "cpu_requests", "memory_requests", "cpu_limits", "memory_limits",
    "startup_probe", "liveness_probe", "readiness_probe", "shared_selectors",
    "unique_selectors", "tolerations", "duration", "interface", "start_vlan", "end_vlan",
    "latency", "packet_loss", "bandwidth_limit", "flap_down", "flap_up", "firewall",
    "network", "indexed", "dry_run", "flapped_down", "NodeNotReady_node-controller",
    "NodeNotReady_kubelet", "NodeReady", "TaintManagerEviction_pods", "killed_pods",
    "kb_PodScheduled_avg", "kb_PodScheduled_max", "kb_PodScheduled_p50",
    "kb_PodScheduled_p95", "kb_PodScheduled_p99", "kb_Initialized_avg",
    "kb_Initialized_max", "kb_Initialized_p50", "kb_Initialized_p95", "kb_Initialized_p99",
    "kb_ContainersReady_avg", "kb_ContainersReady_max", "kb_ContainersReady_p50",
    "kb_ContainersReady_p95", "kb_ContainersReady_p99", "kb_Ready_avg", "kb_Ready_max",
    "kb_Ready_p50", "kb_Ready_p95", "kb_Ready_p99"
  >>

MetricsFixedHeader ==
  <<
    "start_ts", "workload_complete_ts", "measurement_complete_ts", "cleanup_complete_ts",
    "end_ts", "start_time", "workload_complete_time", "measurement_complete_time",
    "cleanup_complete_time", "end_time", "title", "workload_uuid"
  >>

RECURSIVE MetricColumns(_)
MetricColumns(metrics) ==
  IF metrics = <<>> THEN <<>>
  ELSE << <<Head(metrics), "len">>, <<Head(metrics), "min">>, <<Head(metrics), "avg">>,
          <<Head(metrics), "max">>, <<Head(metrics), "p50">>, <<Head(metrics), "p95">>,
          <<Head(metrics), "p99">> >> \o MetricColumns(Tail(metrics))

\* datetime.utcfromtimestamp(t)
UtcFromTimestamp(t) == [utc |-> t]

\* A csv file: whether it exists, and its rows in order
Row(kind, fields) == [kind |-> kind, fields |-> fields]

AppendCsv_Mutant(file, header, fields) ==
  [exists |-> TRUE,
   rows |-> file.rows \o <<Row("header", header)>> \o <<Row("data", fields)>>]

\* Open for append; the header row is written only when the file did not exist
AppendCsv(file, header, fields) ==
  [exists |-> TRUE,
   rows |-> file.rows \o (IF file.exists THEN <<>> ELSE <<Row("header", header)>>)
            \o <<Row("data", fields)>>]

\* The phase durations of "boatload Stats"
\* The duration computed whether or not the phase ran
PhaseDuration_Mutant(disabled, start, end) == RoundedDuration(start, end)

PhaseDuration(disabled, start, end) == IF disabled THEN 0 ELSE RoundedDuration(start, end)

\* The first ten columns of both rows
Timestamps(t) ==
  << Millis(t.start_time), Millis(t.workload_end_time), Millis(t.measurement_end_time),
     Millis(t.cleanup_end_time), Millis(t.end_time), UtcFromTimestamp(t.start_time),
     UtcFromTimestamp(t.workload_end_time), UtcFromTimestamp(t.measurement_end_time),
     UtcFromTimestamp(t.cleanup_end_time), UtcFromTimestamp(t.end_time) >>

RECURSIVE LatencyFields(_)
LatencyFields(measurements) ==
  IF measurements = <<>> THEN <<>>
  ELSE [i \in 1..Len(kb_stats) |-> pod_latencies[Head(measurements)][kb_stats[i]]]
       \o LatencyFields(Tail(measurements))

ResultFields ==
  Timestamps(times)
  \o << cliargs.csv_title, "workload-uuid",
        PhaseDuration(cliargs.no_workload_phase, times.workload_start_time,
                      times.workload_end_time),
        PhaseDuration(cliargs.no_measurement_phase, times.measurement_start_time,
                      times.measurement_end_time),
        PhaseDuration(cliargs.no_cleanup_phase, times.cleanup_start_time,
                      times.cleanup_end_time),
        PhaseDuration(cliargs.no_metrics_phase, times.metrics_start_time,
                      times.metrics_end_time),
        RoundedDuration(times.start_time, times.end_time),
        cliargs.namespaces, cliargs.deployments, cliargs.pods, cliargs.containers,
        IF cliargs.service THEN 1 ELSE 0, IF cliargs.route THEN 1 ELSE 0,
        cliargs.configmaps, cliargs.secrets, cliargs.container_image, cliargs.cpu_requests,
        cliargs.memory_requests, cliargs.cpu_limits, cliargs.memory_limits,
        cliargs.startup_probe, cliargs.liveness_probe, cliargs.readiness_probe,
        cliargs.shared_selectors, cliargs.unique_selectors, cliargs.tolerations,
        cliargs.duration, cliargs.interface, cliargs.start_vlan, cliargs.end_vlan,
        cliargs.latency, cliargs.packet_loss, cliargs.bandwidth_limit,
        cliargs.link_flap_down, cliargs.link_flap_up, cliargs.link_flap_firewall,
        cliargs.link_flap_network, cliargs.index_server # "", cliargs.dry_run,
        flap.link_flap_count, counts.nodenotready_node_controller_count,
        counts.nodenotready_kubelet_count, counts.nodeready_count, counts.marked_evictions,
        counts.killed_pod >>
  \o LatencyFields(kb_measurements)

RECURSIVE MetricFields(_)
MetricFields(metrics) ==
  IF metrics = <<>> THEN <<>>
  ELSE LET d == metrics_data[Head(metrics)]
       IN  <<d.len, d.min, d.avg, d.max, d.P50, d.P95, d.P99>> \o MetricFields(Tail(metrics))

MetricsFields == Timestamps(times) \o <<cliargs.csv_title, "workload-uuid">> \o MetricFields(cliargs.metrics)

\* The report with the result row written twice
Report_Mutant ==
  /\ pc = "report"
  /\ results_file' = AppendCsv(AppendCsv(results_file, ResultsHeader, ResultFields),
                             ResultsHeader, ResultFields)
  /\ metrics_file' =
       IF ReadsMetrics
         THEN AppendCsv(metrics_file, MetricsFixedHeader \o MetricColumns(cliargs.metrics),
                        MetricsFields)
         ELSE metrics_file
  /\ Exit(0)
  /\ UNCHANGED <<cliargs, cmd_ticks, now, process_start, times, flap, counts, cmds, links,
                 pod_latencies, metrics_data,
                 argv, events, metric_files, invocation, runs, probe_args, writers>>

\* "boatload Stats", write_csv_results and, when the Metrics phase ran outside
\* a dry run, write_csv_metrics; main() returns and the process exits with 0
Report ==
  /\ pc = "report"
  /\ results_file' = AppendCsv(results_file, ResultsHeader, ResultFields)
  /\ metrics_file' =
       IF ReadsMetrics
         THEN AppendCsv(metrics_file, MetricsFixedHeader \o MetricColumns(cliargs.metrics),
                        MetricsFields)
         ELSE metrics_file
  /\ Exit(0)
  /\ UNCHANGED <<cliargs, cmd_ticks, now, process_start, times, flap, counts, cmds, links,
                 pod_latencies, metrics_data,
                 argv, events, metric_files, invocation, runs, probe_args, writers>>

Next ==
  \/ ParseArgs
  \/ Reset
  \/ NoMeaningfulPhases
  \/ ValidateFlap
  \/ ValidateMetrics
  \/ WorkloadPhase
  \/ MeasurementBegin
  \/ PollWait
  \/ PollFlapUp
  \/ PollFlapDown
  \/ MeasurementEnd
  \/ SampleEvents
  \/ CleanupPhase
  \/ MetricsPhase
  \/ Collect
  \/ Report

Spec == Init /\ [][Next]_vars

\* ------------------------------------------------- successive invocations
\* The sub-interfaces as an earlier apply_tc_netem left them
ImpairedLinks == [v \in DOMAIN CleanLinks |-> [CleanLinks[v] EXCEPT !.netem = TRUE]]

\* Options of the invocations that follow one another on one host and one
\* pair of csv files: --reset, and Cleanup with or without Metrics over two
\* lists of metric names
RunInputs ==
  { [BaseArgs EXCEPT !.reset = TRUE] } \cup
  { [BaseArgs EXCEPT !.no_workload_phase = TRUE, !.no_measurement_phase = TRUE,
                     !.no_metrics_phase = x, !.metrics = ml,
                     !.prometheus_url = "https://prometheus", !.prometheus_token = "token"] :
      x \in BOOLEAN, ml \in {<<"kubeletCPU">>, <<"kubeletCPU", "crioMemory">>} }

\* The process has exited and the program is invoked again: a new process on
\* the same host, clock and files, its metrics directory a fresh mkdtemp
Invoke ==
  /\ pc = "exited"
  /\ invocation < MaxInvocations
  /\ cliargs' \in RunInputs
  /\ argv' = cliargs'
  /\ pc' = "parse_args"
  /\ exit_code' = Unbound
  /\ process_start' = Unbound
  /\ times' = UnboundTimes
  /\ flap' = InitialFlap
  /\ counts' = ZeroCounts
  /\ cmds' = <<>>
  /\ pod_latencies' = <<>>
  /\ metrics_data' = <<>>
  /\ events' = <<>>
  /\ metric_files' = <<>>
  /\ invocation' = invocation + 1
  /\ runs' = Append(runs, [args |-> argv, exit_code |-> exit_code])
  /\ probe_args' = <<>>
  /\ UNCHANGED <<cmd_ticks, now, links, results_file, metrics_file, writers>>

InitRuns == Started(RunInputs, {CleanLinks, ImpairedLinks})

NextRuns ==
  \/ ParseArgs
  \/ Reset
  \/ ValidateFlap
  \/ ValidateMetrics
  \/ WorkloadPhase
  \/ MeasurementBegin
  \/ CleanupPhase
  \/ MetricsPhase
  \/ Collect
  \/ Report
  \/ Invoke

SpecRuns == InitRuns /\ [][NextRuns]_vars

\* ------------------------------------------------------ metric aggregation
\* Every series of 1..MaxSamples values, and the series 1..10
Series ==
  UNION {[1..n -> 0..MaxValue] : n \in 1..MaxSamples} \cup {<<1, 2, 3, 4, 5, 6, 7, 8, 9, 10>>}

SeriesFiles == {[present |-> TRUE, values |-> s] : s \in Series}

\* A real run of the Cleanup and Metrics phases for one metric
AggregateInputs ==
  { [BaseArgs EXCEPT !.no_workload_phase = TRUE, !.no_measurement_phase = TRUE,
                     !.prometheus_url = "https://prometheus", !.prometheus_token = "token"] }

CollectSeries == CollectFrom(SeriesFiles)

InitAggregate == Started(AggregateInputs, {CleanLinks})

NextAggregate ==
  \/ ParseArgs
  \/ ValidateFlap
  \/ ValidateMetrics
  \/ WorkloadPhase
  \/ MeasurementBegin
  \/ CleanupPhase
  \/ MetricsPhase
  \/ CollectSeries
  \/ Report

SpecAggregate == InitAggregate /\ [][NextAggregate]_vars

\* ------------------------------------------------------------ the wait loop
\* Runs of the Measurement phase alone, followed up to the end of the phase
WaitInputs ==
  { [BaseArgs EXCEPT !.no_workload_phase = TRUE, !.no_cleanup_phase = TRUE,
                     !.no_metrics_phase = TRUE,
                     !.duration = du,
                     !.link_flap_down = fd, !.link_flap_up = fu, !.link_flap_firewall = fw] :
      du \in 0..MaxDuration,
      fd \in 0..MaxFlap, fu \in 0..MaxFlap, fw \in BOOLEAN }

InitWait == Started(WaitInputs, {CleanLinks})

NextWait ==
  \/ ParseArgs
  \/ ValidateFlap
  \/ ValidateMetrics
  \/ WorkloadPhase
  \/ MeasurementBegin
  \/ PollWait
  \/ PollFlapUp
  \/ PollFlapDown
  \/ MeasurementEnd

\* time.sleep(.1) returns, the clock moves on and every external command
\* returns: main() keeps taking its next step
SpecWait == InitWait /\ [][NextWait]_vars /\ WF_vars(NextWait)

\* ------------------------------------------------------------------ dry runs
\* Every option set of the phases and of the Measurement phase, as a dry run
DryInputs == { [a EXCEPT !.dry_run = TRUE] : a \in PhaseArgs \cup MeasurementArgs }

\* The sub-interfaces a dry run can find: untouched, or as a killed run left
\* them, impaired and down by either method
DownLinks ==
  [v \in DOMAIN CleanLinks |-> [admin_up |-> v # BaseArgs.start_vlan, drop_rules |-> 1, netem |-> TRUE]]

InitDry == Started(DryInputs, {CleanLinks, DownLinks})

SpecDry == InitDry /\ [][Next]_vars

\* ------------------------------------------------- a run killed, then --reset
\* Measurement-only runs on real links, with and without sustained
\* impairments and link flapping by either method
KillInputs ==
  { [BaseArgs EXCEPT !.no_workload_phase = TRUE, !.no_cleanup_phase = TRUE,
                     !.no_metrics_phase = TRUE, !.duration = du, !.latency = l,
                     !.link_flap_down = f, !.link_flap_up = f, !.link_flap_firewall = fw] :
      du \in 0..MaxDuration, l \in {0, 10}, f \in 0..1, fw \in BOOLEAN }

\* The first k commands of a per-VLAN pass
PartialPass(st0, name, args, rcs, ignore_errors, k) ==
  VlanPass(name, args, rcs, ignore_errors, cliargs.start_vlan, cliargs.start_vlan + k - 1, st0)

PassPrefixes(from, cond, name, args, ignore_errors) ==
  IF ~cond THEN {}
  ELSE { PartialPass(st0, name, args, rcs, ignore_errors, k) :
           st0 \in from, rcs \in PassStatuses(name), k \in 0..(cliargs.end_vlan - cliargs.start_vlan + 1) }

\* the passes of from that ran over the whole range without a fatal status
Whole(passes) ==
  { st \in passes :
      ~st.failed /\ \E c \in Range(st.cmds) : c.dev.vlan = cliargs.end_vlan /\ c \notin Range(cmds) }

\* Where the Measurement phase can be when the process is terminated: between
\* two steps, or after any number of commands of the pass it is making
KillPoints ==
  IF pc = "measurement"
    THEN LET add == PassPrefixes({Here}, Len(netem_impairments) > 0, "tc qdisc add",
                                 netem_impairments, FALSE)
             applied == IF Len(netem_impairments) > 0 THEN Whole(add) ELSE {Here}
         IN  {Here} \cup add
             \cup PassPrefixes(applied, flap.flap_links, FlapDownCommand, <<>>, FALSE)
  ELSE IF InWaitLoop
    THEN {Here}
         \cup PassPrefixes({Here}, ToggleDue /\ flap.links_down, FlapUpCommand, <<>>, FALSE)
         \cup PassPrefixes({Here}, ToggleDue /\ ~flap.links_down, FlapDownCommand, <<>>, FALSE)
  ELSE LET up == PassPrefixes({Here}, flap.flap_links, FlapUpCommand, <<>>, TRUE)
           raised == IF flap.flap_links THEN Whole(up) ELSE {Here}
       IN  {Here} \cup up
           \cup PassPrefixes(raised, Len(netem_impairments) > 0, "tc qdisc del", <<>>, FALSE)

\* The process is terminated from outside during its Measurement phase: it
\* returns no status, runs no handler, and what its commands did stays done
Kill ==
  /\ pc \in {"measurement", "wait"}
  /\ ~cliargs.no_measurement_phase
  /\ invocation = 1
  /\ \E st \in KillPoints :
       /\ ~st.failed
       /\ cmds' = st.cmds
       /\ links' = st.links
       /\ now' = now + Elapsed(cmds, st.cmds)
  /\ pc' = "killed"
  /\ UNCHANGED <<cliargs, cmd_ticks, exit_code, process_start, times, flap, counts,
                 pod_latencies, metrics_data, results_file, metrics_file,
                 argv, events, metric_files, invocation, runs, probe_args, writers>>

\* boatload.py --reset with the killed run's interface, VLAN range and method
\* The reset command lines: the killed run's, or with the phases enabled, with
\* flap periods main would refuse, or as a dry run
ResetArgs ==
  { [argv EXCEPT !.reset = TRUE, !.dry_run = d,
                 !.no_workload_phase = o, !.no_cleanup_phase = o, !.no_metrics_phase = o,
                 !.link_flap_up = fu] :
      d \in BOOLEAN, o \in BOOLEAN, fu \in {0, argv.link_flap_down} }

InvokeReset ==
  /\ pc = "killed"
  /\ cliargs' \in ResetArgs
  /\ argv' = cliargs'
  /\ pc' = "parse_args"
  /\ exit_code' = Unbound
  /\ process_start' = Unbound
  /\ times' = UnboundTimes
  /\ flap' = InitialFlap
  /\ counts' = ZeroCounts
  /\ cmds' = <<>>
  /\ pod_latencies' = <<>>
  /\ metrics_data' = <<>>
  /\ events' = <<>>
  /\ metric_files' = <<>>
  /\ invocation' = invocation + 1
  /\ runs' = Append(runs, [args |-> argv, exit_code |-> exit_code])
  /\ probe_args' = <<>>
  /\ UNCHANGED <<cmd_ticks, now, links, results_file, metrics_file, writers>>

InitKill == Started(KillInputs, {CleanLinks})

NextKill ==
  \/ ParseArgs
  \/ ValidateFlap
  \/ ValidateMetrics
  \/ WorkloadPhase
  \/ MeasurementBegin
  \/ PollWait
  \/ PollFlapUp
  \/ PollFlapDown
  \/ Kill
  \/ InvokeReset
  \/ Reset

SpecKill == InitKill /\ [][NextKill]_vars

\* ---------------------------------------------------- concurrent invocations
\* write_csv_results and write_csv_metrics step by step, for invocations that
\* reach line 1273 at the same time and name the same files. Each one tests
\* pathlib.Path(name).is_file(), opens the file for append (which creates it)
\* and writes through csv.writer; the rows sit in the file object's buffer and
\* reach the file when the with-block closes it.
Writers == 1..MaxWriters

\* the results list an invocation passes to the writer
WriterRow(w) == <<"row of invocation", w>>

is_file(file) == file.exists

OpenAppend(file) == [file EXCEPT !.exists = TRUE]

\* The rows written with the header row first whatever write_header is
WriteRows_Mutant(file, write_header, header, fields) ==
  [file EXCEPT !.rows = @ \o <<Row("header", header)>> \o <<Row("data", fields)>>]

\* if write_header: writerow(header); writerow(results)
WriteRows(file, write_header, header, fields) ==
  [file EXCEPT !.rows = @ \o (IF write_header THEN <<Row("header", header)>> ELSE <<>>)
                          \o <<Row("data", fields)>>]

WriterUnchanged ==
  UNCHANGED <<cliargs, cmd_ticks, pc, exit_code, now, process_start, times, flap, counts,
              cmds, links, pod_latencies, metrics_data, argv, events, metric_files,
              invocation, runs, probe_args>>

\* write_csv_results: if not pathlib.Path(result_file_name).is_file()
ResultsIsFile(w) ==
  /\ writers[w].pc = "results_is_file"
  /\ writers' = [writers EXCEPT ![w].pc = "results_open",
                                ![w].write_header = ~is_file(results_file)]
  /\ UNCHANGED <<results_file, metrics_file>>
  /\ WriterUnchanged

\* write_csv_results: open(result_file_name, 'a')
ResultsOpen(w) ==
  /\ writers[w].pc = "results_open"
  /\ results_file' = OpenAppend(results_file)
  /\ writers' = [writers EXCEPT ![w].pc = "results_close"]
  /\ UNCHANGED metrics_file
  /\ WriterUnchanged

\* write_csv_results: the writerow calls and the end of the with-block; main()
\* goes on to write_csv_metrics when the Metrics phase ran outside a dry run
ResultsClose(w) ==
  /\ writers[w].pc = "results_close"
  /\ results_file' = WriteRows(results_file, writers[w].write_header, ResultsHeader,
                               WriterRow(w))
  /\ writers' = [writers EXCEPT ![w].pc = IF writers[w].metrics THEN "metrics_is_file"
                                          ELSE "returned",
                                ![w].wrote_header = writers[w].write_header]
  /\ UNCHANGED metrics_file
  /\ WriterUnchanged

\* write_csv_metrics: if not pathlib.Path(metrics_file_name).is_file()
MetricsIsFile(w) ==
  /\ writers[w].pc = "metrics_is_file"
  /\ writers' = [writers EXCEPT ![w].pc = "metrics_open",
                                ![w].write_header = ~is_file(metrics_file)]
  /\ UNCHANGED <<results_file, metrics_file>>
  /\ WriterUnchanged

\* write_csv_metrics: open(metrics_file_name, 'a')
MetricsOpen(w) ==
  /\ writers[w].pc = "metrics_open"
  /\ metrics_file' = OpenAppend(metrics_file)
  /\ writers' = [writers EXCEPT ![w].pc = "metrics_close"]
  /\ UNCHANGED results_file
  /\ WriterUnchanged

\* write_csv_metrics: the writerow calls and the end of the with-block
MetricsClose(w) ==
  /\ writers[w].pc = "metrics_close"
  /\ metrics_file' = WriteRows(metrics_file, writers[w].write_header,
                               MetricsFixedHeader \o MetricColumns(cliargs.metrics),
                               WriterRow(w))
  /\ writers' = [writers EXCEPT ![w].pc = "returned"]
  /\ UNCHANGED results_file
  /\ WriterUnchanged

\* Files that do not exist yet, or that an earlier invocation wrote
WrittenFile(header) ==
  [exists |-> TRUE, rows |-> <<Row("header", header), Row("data", <<"earlier row">>)>>]

InitWriters ==
  /\ cliargs = [BaseArgs EXCEPT !.prometheus_url = "https://prometheus",
                                !.prometheus_token = "token"]
  /\ argv = cliargs
  /\ cmd_ticks = 0
  /\ pc = "report"
  /\ exit_code = Unbound
  /\ now = 0
  /\ process_start = Unbound
  /\ times = UnboundTimes
  /\ flap = InitialFlap
  /\ counts = ZeroCounts
  /\ cmds = <<>>
  /\ links = CleanLinks
  /\ pod_latencies = <<>>
  /\ metrics_data = <<>>
  /\ results_file \in {NoFile, WrittenFile(ResultsHeader)}
  /\ metrics_file \in {NoFile,
                       WrittenFile(MetricsFixedHeader \o MetricColumns(cliargs.metrics))}
  /\ events = <<>>
  /\ metric_files = <<>>
  /\ invocation = 1
  /\ runs = <<>>
  /\ probe_args = <<>>
  /\ writers \in [Writers -> {[pc |-> "results_is_file", write_header |-> FALSE,
                               wrote_header |-> FALSE, metrics |-> m] : m \in BOOLEAN}]

NextWriters ==
  \/ \E w \in Writers : ResultsIsFile(w)
  \/ \E w \in Writers : ResultsOpen(w)
  \/ \E w \in Writers : ResultsClose(w)
  \/ \E w \in Writers : MetricsIsFile(w)
  \/ \E w \in Writers : MetricsOpen(w)
  \/ \E w \in Writers : MetricsClose(w)

SpecWriters == InitWriters /\ [][NextWriters]_vars

\* ------------------------------------------------------------------ claims
DataRows(file) == SelectSeq(file.rows, LAMBDA r : r.kind = "data")

Issued(name) == SelectSeq(cmds, LAMBDA c : c.name = name)

AllSucceeded == \A i \in 1..Len(cmds) : cmds[i].rc = 0

\* C1: in every result row written, start_ts <= workload_complete_ts <=
\* measurement_complete_ts <= cleanup_complete_ts <= end_ts.
C1_BoundaryChain ==
  \A i \in 1..Len(DataRows(results_file)) :
    LET f == DataRows(results_file)[i].fields
    IN  f[1] <= f[2] /\ f[2] <= f[3] /\ f[3] <= f[4] /\ f[4] <= f[5]

\* C2: in every result row written, the end timestamp of a disabled phase is
\* the end timestamp of the closest enabled phase before it: workload_complete_ts
\* is the process start when Workload is disabled, measurement_complete_ts is
\* workload_complete_ts when Measurement is disabled, cleanup_complete_ts is
\* measurement_complete_ts when Cleanup is disabled.
C2_DisabledPhaseCollapses ==
  \A i \in 1..Len(DataRows(results_file)) :
    LET f == DataRows(results_file)[i].fields
    IN  /\ cliargs.no_workload_phase => f[2] = Millis(process_start)
        /\ cliargs.no_measurement_phase => f[3] = f[2]
        /\ cliargs.no_cleanup_phase => f[4] = f[3]

\* A row of a run that skipped Measurement and Cleanup after a Workload phase
\* that took time
C2_Witness ==
  /\ exit_code = 0
  /\ ~cliargs.no_workload_phase /\ cliargs.no_measurement_phase /\ cliargs.no_cleanup_phase
  /\ Len(DataRows(results_file)) = 1
  /\ DataRows(results_file)[1].fields[4] > Millis(process_start)

NoRowWritten == results_file.rows = <<>> /\ metrics_file.rows = <<>>

NoPhaseStarted ==
  /\ times.workload_start_time = Unbound
  /\ times.measurement_start_time = Unbound
  /\ times.cleanup_start_time = Unbound
  /\ times.metrics_start_time = Unbound

\* C3: without --reset and with valid probe settings, a run with Workload,
\* Measurement and Cleanup all disabled goes from argument parsing straight to
\* exit code 0, issues no external command, starts no phase and writes no row,
\* whatever the Metrics flag and the other options are.
C3_NoPhasesIsNoOp ==
  ( /\ ~cliargs.reset
    /\ ~ProbesRejected(cliargs)
    /\ cliargs.no_workload_phase /\ cliargs.no_measurement_phase /\ cliargs.no_cleanup_phase )
  => /\ pc \in {"parse_args", "dispatch", "exited"}
     /\ pc = "exited" => exit_code = 0
     /\ cmds = <<>>
     /\ NoPhaseStarted
     /\ NoRowWritten

\* The no-op exit of a run that asked for the Metrics phase with a Prometheus
\* URL still to be looked up
C3_Witness ==
  /\ pc = "exited" /\ exit_code = 0
  /\ ~cliargs.reset
  /\ cliargs.no_workload_phase /\ cliargs.no_measurement_phase /\ cliargs.no_cleanup_phase
  /\ ~cliargs.no_metrics_phase /\ cliargs.prometheus_url = ""

\* The wait loop of an enabled Measurement phase has been left normally
MeasurementCompleted ==
  /\ ~cliargs.no_measurement_phase
  /\ \/ pc \in {"events", "cleanup", "metrics", "collect", "report"}
     \/ pc = "exited" /\ results_file.rows # <<>>

\* The k for which --duration is (link_flap_down + link_flap_up) * k, 0 if none
FlapCycles ==
  LET period == cliargs.link_flap_down + cliargs.link_flap_up
  IN  IF period > 0 /\ cliargs.duration % period = 0 THEN cliargs.duration \div period ELSE 0

\* C4: with link flap on, external commands that take no time and a duration
\* of (link_flap_down + link_flap_up) * k seconds, k >= 1, the flap count at
\* the end of the Measurement phase, and the flapped_down column of the row,
\* is exactly k.
C4_FlapCountIsCycles ==
  (cmd_ticks = 0 /\ flap.flap_links /\ FlapCycles >= 1 /\ MeasurementCompleted)
  => /\ flap.link_flap_count = FlapCycles
     /\ \A i \in 1..Len(DataRows(results_file)) :
          DataRows(results_file)[i].fields[50] = FlapCycles

\* A row reporting two down-transitions after two full cycles
C4_Witness ==
  /\ cmd_ticks = 0 /\ flap.flap_links /\ MeasurementCompleted
  /\ FlapCycles = 2
  /\ Len(DataRows(results_file)) = 1
  /\ DataRows(results_file)[1].fields[50] = 2

LinkUp(l) == l.admin_up /\ l.drop_rules = 0

\* One step that leaves the wait loop of a phase with link flap on
C5_LoopExit ==
  LET fresh == SubSeq(cmds', Len(cmds) + 1, Len(cmds'))
      n == cliargs.end_vlan - cliargs.start_vlan + 1
      dels == IF cliargs.latency > 0 \/ cliargs.packet_loss > 0 \/ cliargs.bandwidth_limit > 0
                THEN n ELSE 0
      up == IF cliargs.link_flap_firewall THEN "iptables -D" ELSE "ip link set up"
  IN  ( /\ pc = "wait"
        /\ flap.current_time >= times.measurement_expected_end_time
        /\ flap.flap_links )
      => /\ Len(fresh) >= n /\ Len(fresh) <= n + dels
         /\ \A i \in 1..n :
              /\ fresh[i].name = up
              /\ fresh[i].dev = [interface |-> cliargs.interface,
                                 vlan |-> cliargs.start_vlan + i - 1]
         /\ \A i \in (n + 1)..Len(fresh) :
              /\ fresh[i].name = "tc qdisc del"
              /\ fresh[i].dev = [interface |-> cliargs.interface,
                                 vlan |-> cliargs.start_vlan + i - n - 1]
         /\ times.measurement_end_time = times.workload_end_time
         /\ IF pc' = "events"
              THEN /\ Len(fresh) = n + dels
                   /\ times'.measurement_end_time = now'
                   /\ now' = now + Len(fresh) * cmd_ticks
                   /\ (\A i \in 1..Len(cmds') : cmds'[i].rc = 0)
                        => \A v \in DOMAIN links' : LinkUp(links'[v]) /\ ~links'[v].netem
              ELSE /\ pc' = "exited" /\ exit_code' = 1
                   /\ fresh[Len(fresh)].name = "tc qdisc del" /\ fresh[Len(fresh)].rc # 0
                   /\ times' = times

\* C5: when the wait loop exits with link flap on, a bring-up is issued for
\* every VLAN of the range whatever the earlier statuses, then one removal per
\* VLAN if a sustained impairment is configured, and measurement_end_time is
\* recorded only after both; if every command of the run succeeded, every link
\* is then up and no sustained impairment is applied.
C5_LoopExitRestoresLinks == [][C5_LoopExit]_vars

\* The phase just ended on a real run with both flapping and impairments, and
\* every command succeeded
C5_Witness ==
  /\ pc = "events"
  /\ flap.flap_links /\ Len(netem_impairments) > 0 /\ ~cliargs.dry_run
  /\ AllSucceeded
  /\ cmds[Len(cmds)].name = "tc qdisc del"
  /\ Len(Issued("iptables -D")) = NumVlans
  /\ \A v \in Vlans : LinkUp(links[v]) /\ ~links[v].netem

FlapCommands == {"iptables -A", "iptables -D", "ip link set down", "ip link set up"}

NoFlapIssued == \A i \in 1..Len(cmds) : cmds[i].name \notin FlapCommands

\* main() is in, or past, the wait loop of the Measurement phase
ReachedWaitLoop == pc \in {"wait", "events", "cleanup", "metrics", "collect", "report"}

\* Both flap periods and a sustained impairment were requested for a
\* Measurement phase, and the run got past the validation of its arguments
C6_BothRequested ==
  /\ cliargs.link_flap_down > 0 /\ cliargs.link_flap_up > 0
  /\ cliargs.latency > 0 \/ cliargs.packet_loss > 0 \/ cliargs.bandwidth_limit > 0
  /\ ~cliargs.no_measurement_phase /\ ~cliargs.reset /\ ~ProbesRejected(cliargs)
  /\ pc \notin {"parse_args", "dispatch"}

\* The run exited with 1 for a reason other than its arguments: a command
\* failed, the metrics profile is missing or a metric file could not be read
FailedElsewhere ==
  \/ ~AllSucceeded
  \/ ~ProfileFound(cliargs.metrics_profile)
  \/ times.end_time # Unbound

\* C6: with both flap periods positive and a sustained impairment configured,
\* the firewall method leaves link flap on and the phase applies the
\* impairments and flaps; the administrative method turns link flap off (no
\* flap command is ever issued, the flap count stays 0) while the impairments
\* are still applied, and the run is not ended for this combination.
C6_FlapWithImpairments ==
  C6_BothRequested =>
    /\ flap.flap_links = cliargs.link_flap_firewall
    /\ ReachedWaitLoop => Len(Issued("tc qdisc add")) = NumVlans
    /\ pc = "wait" /\ ~cliargs.dry_run => \A v \in Vlans : links[v].netem
    /\ cliargs.link_flap_firewall /\ ReachedWaitLoop =>
         /\ Len(Issued("iptables -A")) >= NumVlans
         /\ flap.link_flap_count >= 1
    /\ ~cliargs.link_flap_firewall => NoFlapIssued /\ flap.link_flap_count = 0
    /\ pc = "exited" /\ exit_code = 1 => FailedElsewhere

\* The administrative method with packet loss: in the wait loop with the
\* impairment applied on every VLAN and no flapping
C6_Witness ==
  /\ C6_BothRequested /\ ~cliargs.link_flap_firewall /\ ~cliargs.dry_run
  /\ pc = "wait" /\ flap.current_time > times.measurement_start_time
  /\ \A v \in Vlans : links[v].netem /\ LinkUp(links[v])

\* The start of the first enabled phase and the end of the last one, as C7
\* words them; unbound when the phase they name did not run
C7_EffectiveStart ==
  IF ~cliargs.no_workload_phase THEN times.workload_start_time
  ELSE IF ~cliargs.no_measurement_phase THEN times.measurement_start_time
  ELSE IF ~cliargs.no_cleanup_phase THEN times.cleanup_start_time
  ELSE Unbound

C7_EffectiveEnd ==
  IF ~cliargs.no_cleanup_phase /\ times.cleanup_start_time # Unbound
    THEN times.cleanup_end_time
  ELSE IF cliargs.no_cleanup_phase /\ ~cliargs.no_measurement_phase
          /\ times.measurement_start_time # Unbound
    THEN times.measurement_end_time
  ELSE IF cliargs.no_cleanup_phase /\ cliargs.no_measurement_phase
          /\ ~cliargs.no_workload_phase /\ times.workload_start_time # Unbound
    THEN times.workload_end_time
  ELSE Unbound

\* C7: whenever the Metrics phase runs, the index job is issued once with
\* --start the (whole-second) start of the first enabled phase among Workload,
\* Measurement, Cleanup and --end the end of the last enabled one; both belong
\* to phases that ran, and start <= end.
C7_IndexWindow ==
  /\ pc \in {"collect", "report"} /\ ~cliargs.no_metrics_phase
       => Len(Issued("kube-burner index")) = 1
  /\ \A i \in 1..Len(cmds) :
       cmds[i].name = "kube-burner index" =>
         /\ C7_EffectiveStart # Unbound /\ C7_EffectiveEnd # Unbound
         /\ cmds[i].args = << Arg("--start", C7_EffectiveStart \div TicksPerSecond),
                              Arg("--end", C7_EffectiveEnd \div TicksPerSecond) >>
         /\ C7_EffectiveStart <= C7_EffectiveEnd
         /\ cmds[i].args[1].value <= cmds[i].args[2].value
         /\ pc = "collect" =>
              times.start_time = C7_EffectiveStart /\ times.end_time = C7_EffectiveEnd

\* The index job of a run with only the Measurement phase before it, over a
\* window of at least a second
C7_Witness ==
  /\ pc = "collect"
  /\ cliargs.no_workload_phase /\ ~cliargs.no_measurement_phase /\ cliargs.no_cleanup_phase
  /\ Len(Issued("kube-burner index")) = 1
  /\ Issued("kube-burner index")[1].args[1].value < Issued("kube-burner index")[1].args[2].value

\* C8: a nonzero status of the create job or of the delete job ends the process
\* at once with exit code 1: the failed job is the last command issued, no
\* later phase has started and no row is written to either file.
C8_EngineFailureIsFatal ==
  \A i \in 1..Len(cmds) :
    (cmds[i].name \in {"kube-burner init create", "kube-burner init delete"} /\ cmds[i].rc # 0)
    => /\ pc = "exited" /\ exit_code = 1
       /\ i = Len(cmds)
       /\ NoRowWritten
       /\ times.metrics_start_time = Unbound
       /\ cmds[i].name = "kube-burner init create" =>
            times.measurement_start_time = Unbound /\ times.cleanup_start_time = Unbound

\* The delete job failed after a Workload and a Measurement phase that ran
C8_Witness ==
  /\ pc = "exited" /\ exit_code = 1
  /\ Len(cmds) > 1
  /\ cmds[Len(cmds)].name = "kube-burner init delete" /\ cmds[Len(cmds)].rc # 0
  /\ times.workload_start_time # Unbound /\ times.measurement_start_time # Unbound
  /\ ~cliargs.no_metrics_phase

\* C9: a nonzero status of the index job does not end the run: metrics_end_time
\* is recorded, the result row is appended and the process exits with code 0.
C9_IndexFailureIsNotFatal ==
  (pc = "exited" /\ Len(Issued("kube-burner index")) = 1
     /\ Issued("kube-burner index")[1].rc # 0)
  => /\ exit_code = 0
     /\ times.metrics_end_time # Unbound
     /\ Len(DataRows(results_file)) = 1

\* The impairments a tc add command must carry, from the three options
C10_Configured ==
  (IF cliargs.latency > 0 THEN {Arg("delay", cliargs.latency)} ELSE {})
  \cup (IF cliargs.packet_loss > 0 THEN {Arg("loss", cliargs.packet_loss)} ELSE {})
  \cup (IF cliargs.bandwidth_limit > 0 THEN {Arg("rate", cliargs.bandwidth_limit)} ELSE {})

\* C10: the add operations are issued one per VLAN in ascending order from
\* start_vlan, each on <interface>.<vlan> with every configured impairment; one
\* that returns a nonzero status is the last command of the run, which exits
\* with code 1; a phase that reaches its wait loop has issued exactly one add
\* per VLAN of the range (none when no impairment is configured).
C10_ApplySustained ==
  LET adds == Issued("tc qdisc add")
  IN  /\ Len(adds) <= cliargs.end_vlan - cliargs.start_vlan + 1
      /\ \A i \in 1..Len(adds) :
           /\ adds[i].dev = [interface |-> cliargs.interface,
                             vlan |-> cliargs.start_vlan + i - 1]
           /\ Range(adds[i].args) = C10_Configured
           /\ Len(adds[i].args) = Cardinality(C10_Configured)
           /\ adds[i].rc # 0 =>
                /\ i = Len(adds)
                /\ cmds[Len(cmds)] = adds[i]
                /\ pc = "exited" /\ exit_code = 1
      /\ ReachedWaitLoop =>
           Len(adds) = IF C10_Configured = {}
                         THEN 0 ELSE cliargs.end_vlan - cliargs.start_vlan + 1

\* The add for the second VLAN failed after the first succeeded, with three
\* impairments configured and a later VLAN left in the range
C10_Witness ==
  /\ pc = "exited" /\ exit_code = 1
  /\ Len(Issued("tc qdisc add")) = 2
  /\ Issued("tc qdisc add")[1].rc = 0 /\ Issued("tc qdisc add")[2].rc # 0
  /\ Len(Issued("tc qdisc add")[2].args) = 3
  /\ cliargs.end_vlan > cliargs.start_vlan + 1
  /\ links[cliargs.start_vlan].netem /\ ~links[cliargs.end_vlan].netem


\* The removals of this invocation name the VLANs of the range, one each, in
\* ascending order
OneRemovalPerVlan ==
  /\ Len(Issued("tc qdisc del")) = NumVlans
  /\ \A i \in 1..NumVlans :
       Issued("tc qdisc del")[i].dev = Dev(cliargs.start_vlan + i - 1)

\* C11: remove_tc_netem with ignore_errors (the --reset invocation) issues one
\* removal for every VLAN of the range whatever the status of the earlier
\* ones and does not end the process with an error, so a second --reset after
\* the first, failing on every VLAN, also completes with exit code 0.
C11_RemoveIgnoringErrors ==
  (pc = "exited" /\ cliargs.reset) => (OneRemovalPerVlan /\ exit_code = 0)

\* A second --reset right after a first one on impaired links: every removal
\* of the second fails and all of them are issued
C11_Witness ==
  /\ invocation = 2 /\ pc = "exited" /\ cliargs.reset /\ ~cliargs.dry_run
  /\ runs[1].args.reset /\ runs[1].exit_code = 0
  /\ OneRemovalPerVlan
  /\ \A i \in 1..NumVlans : Issued("tc qdisc del")[i].rc # 0
  /\ exit_code = 0

\* The position of a column in the result row
Column(name) == CHOOSE i \in 1..Len(ResultsHeader) : ResultsHeader[i] = name

EventColumns ==
  {Column("NodeNotReady_node-controller"), Column("NodeNotReady_kubelet"),
   Column("NodeReady"), Column("TaintManagerEviction_pods"), Column("killed_pods")}

NoEventQueryIssued == \A i \in 1..Len(cmds) : cmds[i].name \notin Range(EventQueries)

\* C12: with the Measurement phase disabled no event query is issued and the
\* five event counters of the result row are all 0.
C12_EventsOnlyWithMeasurement ==
  cliargs.no_measurement_phase =>
    /\ NoEventQueryIssued
    /\ \A i \in 1..Len(DataRows(results_file)) :
         \A c \in EventColumns : DataRows(results_file)[i].fields[c] = 0

\* A real run of the Workload and Cleanup phases without Measurement that
\* wrote its row
C12_Witness ==
  /\ cliargs.no_measurement_phase /\ ~cliargs.no_workload_phase /\ ~cliargs.no_cleanup_phase
  /\ ~cliargs.dry_run /\ pc = "exited" /\ exit_code = 0
  /\ Len(DataRows(results_file)) = 1
  /\ \A c \in EventColumns : DataRows(results_file)[1].fields[c] = 0
  /\ Len(cmds) >= 2 /\ NoEventQueryIssued

\* The first event query of this invocation returned its list
NodeNotReadyListed ==
  /\ Len(Issued(EventQueries[1])) = 1
  /\ Issued(EventQueries[1])[1].rc = 0

\* The NodeNotReady events the query lists, last seen at or after the start of
\* the Measurement phase and reported by the given component
NodeNotReadySince(component) ==
  {i \in 1..Len(events) :
     /\ events[i].reason = "NodeNotReady" /\ events[i].namespace = "default"
     /\ events[i].lastTimestamp * TicksPerSecond >= times.measurement_start_time
     /\ events[i].component = component}

\* C13: the node-controller and kubelet counters are the numbers of listed
\* NodeNotReady events with lastTimestamp >= measurement_start_time from that
\* component; an event from another component or from before the start
\* changes no counter and does not end the run.
C13_NodeNotReadyByComponent ==
  NodeNotReadyListed =>
    /\ counts.nodenotready_node_controller_count =
         Cardinality(NodeNotReadySince("node-controller"))
    /\ counts.nodenotready_kubelet_count = Cardinality(NodeNotReadySince("kubelet"))
    /\ \A i \in 1..Len(DataRows(results_file)) :
         /\ DataRows(results_file)[i].fields[Column("NodeNotReady_node-controller")] =
              Cardinality(NodeNotReadySince("node-controller"))
         /\ DataRows(results_file)[i].fields[Column("NodeNotReady_kubelet")] =
              Cardinality(NodeNotReadySince("kubelet"))
    /\ pc = "exited" /\ exit_code = 1 => FailedElsewhere

\* Events 5 s before, 1 s after and 10 s after the start, from kubelet,
\* kubelet and node-controller: the row reports kubelet 1, node-controller 1
C13_Witness ==
  /\ NodeNotReadyListed /\ pc = "exited" /\ exit_code = 0
  /\ Len(DataRows(results_file)) = 1
  /\ LET T == IntSeconds(times.measurement_start_time)
         nnr == SelectSeq(events, LAMBDA e : e.reason = "NodeNotReady")
     IN  /\ Len(nnr) = 3
         /\ <<nnr[1].lastTimestamp, nnr[2].lastTimestamp, nnr[3].lastTimestamp>> =
              <<T - 5, T + 1, T + 10>>
         /\ <<nnr[1].component, nnr[2].component, nnr[3].component>> =
              <<"kubelet", "kubelet", "node-controller">>
  /\ DataRows(results_file)[1].fields[Column("NodeNotReady_kubelet")] = 1
  /\ DataRows(results_file)[1].fields[Column("NodeNotReady_node-controller")] = 1

\* The TaintManagerEviction query of this invocation returned its list
EvictionsListed ==
  /\ Len(Issued(EventQueries[3])) = 1
  /\ Issued(EventQueries[3])[1].rc = 0

\* The listed TaintManagerEviction events of a boatload namespace that mark a
\* pod for deletion and were last seen at or after the start of Measurement
EvictionsSince ==
  {i \in 1..Len(events) :
     /\ events[i].reason = "TaintManagerEviction"
     /\ NsPatternMatches(events[i].namespace)
     /\ EvictionPatternMatches(events[i].message)
     /\ events[i].lastTimestamp * TicksPerSecond >= times.measurement_start_time}

\* C14: a TaintManagerEviction event last seen before measurement_start_time
\* is never counted: the counter is the number of events of a boatload
\* namespace with the marked-for-deletion message and lastTimestamp at or
\* after measurement_start_time.
C14_EvictionsSinceStart ==
  EvictionsListed => counts.marked_evictions = Cardinality(EvictionsSince)

\* The 20 kb_<milestone>_<stat> columns, the last of the result row
LatencyColumns == Column("kb_PodScheduled_avg") .. Len(ResultsHeader)

\* C15: with the Workload phase disabled or in a dry run all 20 pod-latency
\* fields of the result row are 0, and every result row has exactly as many
\* fields as the header, whichever phases ran and whichever milestones the
\* engine's summary held.
C15_LatencyDefaultsAndWidth ==
  \A i \in 1..Len(DataRows(results_file)) :
    LET row == DataRows(results_file)[i].fields
    IN  /\ Len(row) = Len(ResultsHeader)
        /\ Cardinality(LatencyColumns) = 20
        /\ argv.no_workload_phase \/ argv.dry_run => \A c \in LatencyColumns : row[c] = 0

\* A real run without the Workload phase wrote a full-width row of zero
\* latencies
C15_Witness ==
  /\ argv.no_workload_phase /\ ~argv.dry_run /\ ~argv.no_cleanup_phase
  /\ pc = "exited" /\ exit_code = 0
  /\ Len(DataRows(results_file)) = 1
  /\ Len(DataRows(results_file)[1].fields) = 75
  /\ \A c \in 56..75 : DataRows(results_file)[1].fields[c] = 0

\* The files of this invocation's metrics directory that hold no sample
EmptySeries == {m \in DOMAIN metric_files : metric_files[m].present /\ metric_files[m].values = <<>>}

\* C16: a requested metric whose series has no sample is a hard error: the
\* process ends with a nonzero exit code, no zero is recorded for it and no
\* metrics row is written.
C16_EmptySeriesIsFatal ==
  EmptySeries # {} =>
    /\ pc = "exited" /\ exit_code = 1
    /\ metrics_data = <<>>
    /\ DataRows(metrics_file) = <<>>

\* An index job that succeeded and left one series with samples and one
\* without
C16_Witness ==
  /\ pc = "exited" /\ exit_code = 1 /\ IndexStatus = 0
  /\ cliargs.metrics = <<"kubeletCPU", "crioMemory">>
  /\ DOMAIN metric_files = {"kubeletCPU", "crioMemory"}
  /\ EmptySeries = {"crioMemory"}
  /\ metric_files["kubeletCPU"].values = <<7>>
  /\ DataRows(metrics_file) = <<>>

\* The k-th smallest value of a series, counting from 1
OrderStatistic(v, k) ==
  CHOOSE x \in Range(v) :
    /\ Cardinality({i \in 1..Len(v) : v[i] < x}) < k
    /\ Cardinality({i \in 1..Len(v) : v[i] <= x}) >= k

\* 100 times the q-th percentile of a series by linear interpolation between
\* the order statistics on either side of the rank (n - 1) * q / 100
Interpolated100(v, q) ==
  LET n == Len(v)
      lo == ((n - 1) * q) \div 100
      below == OrderStatistic(v, lo + 1)
      above == IF lo + 2 <= n THEN OrderStatistic(v, lo + 2) ELSE below
  IN  100 * below + ((n - 1) * q - 100 * lo) * (above - below)

\* a <= b for rationals of positive denominator
RatioLeq(a, b) == a.num * b.den <= b.num * a.den

\* The aggregate d is the one the claim describes for the series v
DescribedAggregate(d, v) ==
  /\ d.len = Len(v)
  /\ d.min \in Range(v) /\ \A i \in 1..Len(v) : d.min <= v[i]
  /\ d.max \in Range(v) /\ \A i \in 1..Len(v) : d.max >= v[i]
  /\ d.avg.num * Len(v) = d.avg.den * Sum(v)
  /\ d.P50.num * 100 = d.P50.den * Interpolated100(v, 50)
  /\ d.P95.num * 100 = d.P95.den * Interpolated100(v, 95)
  /\ d.P99.num * 100 = d.P99.den * Interpolated100(v, 99)
  /\ RatioLeq(Ratio(d.min, 1), d.P50) /\ RatioLeq(d.P50, d.P95)
  /\ RatioLeq(d.P95, d.P99) /\ RatioLeq(d.P99, Ratio(d.max, 1))

\* C17: for every non-empty series the aggregate has count = length, min and
\* max the smallest and largest value, avg the arithmetic mean and p50, p95,
\* p99 the linear interpolation between the neighbouring order statistics at
\* rank (n - 1) * q / 100, so min <= p50 <= p95 <= p99 <= max; the series
\* 1..10 gives p50 = 5.5, min = 1, max = 10, avg = 5.5.
C17_AggregateOfSeries ==
  \A m \in DOMAIN metrics_data :
    /\ DescribedAggregate(metrics_data[m], metric_files[m].values)
    /\ metric_files[m].values = <<1, 2, 3, 4, 5, 6, 7, 8, 9, 10>> =>
         /\ metrics_data[m].P50.num * 10 = 55 * metrics_data[m].P50.den
         /\ metrics_data[m].min = 1 /\ metrics_data[m].max = 10
         /\ metrics_data[m].avg.num * 10 = 55 * metrics_data[m].avg.den

\* The series 1..10 aggregated and written to the metrics row
C17_Witness ==
  /\ pc = "exited" /\ exit_code = 0
  /\ DOMAIN metrics_data = {"kubeletCPU"}
  /\ metric_files["kubeletCPU"].values = <<1, 2, 3, 4, 5, 6, 7, 8, 9, 10>>
  /\ metrics_data["kubeletCPU"].P50 = Ratio(550, 100)
  /\ metrics_data["kubeletCPU"].len = 10
  /\ Len(DataRows(metrics_file)) = 1
  /\ DataRows(metrics_file)[1].fields[Len(MetricsFixedHeader) + 5] = Ratio(550, 100)

\* The file holds one header row, and it is the first row
HeaderOnce(f) ==
  f.exists => /\ Len(f.rows) >= 1
              /\ f.rows[1].kind = "header"
              /\ \A i \in 2..Len(f.rows) : f.rows[i].kind = "data"

\* From f to g nothing happened to the file, or one data row was appended to
\* it, or it was created with the header row and one data row
AppendOnly(f, g) ==
  \/ g = f
  \/ /\ f.exists /\ g.exists
     /\ Len(g.rows) = Len(f.rows) + 1
     /\ SubSeq(g.rows, 1, Len(f.rows)) = f.rows
     /\ g.rows[Len(g.rows)].kind = "data"
  \/ /\ ~f.exists /\ g.exists
     /\ f.rows = <<>>
     /\ Len(g.rows) = 2
     /\ g.rows[1].kind = "header" /\ g.rows[2].kind = "data"

C18_Step ==
  /\ AppendOnly(results_file, results_file')
  /\ AppendOnly(metrics_file, metrics_file')

\* C18: over successive invocations each output file holds exactly one header
\* row, its first, written by the invocation that created the file; later
\* invocations only append and leave every earlier row unchanged.
C18_AppendOnlyOneHeader ==
  /\ [](HeaderOnce(results_file) /\ HeaderOnce(metrics_file))
  /\ [][C18_Step]_vars

\* Two invocations have each appended a row to both files
C18_Witness ==
  /\ invocation = 2 /\ pc = "exited" /\ exit_code = 0
  /\ Len(results_file.rows) = 3 /\ Len(metrics_file.rows) = 3
  /\ results_file.rows[1].kind = "header" /\ metrics_file.rows[1].kind = "header"
  /\ Len(DataRows(results_file)) = 2 /\ Len(DataRows(metrics_file)) = 2

\* C19: over successive invocations, whatever lists of metric names they
\* request, every data row of the metrics file has the columns of the file's
\* header row: 12 fixed ones and 7 for each metric the header names.
C19_MetricsRowsMatchHeader ==
  metrics_file.exists =>
    \A i \in 2..Len(metrics_file.rows) :
      Len(metrics_file.rows[i].fields) = Len(metrics_file.rows[1].fields)

\* The configuration echo columns of the result row and the value each reads
\* back as when the row repeats the options a (the two flags written with
\* int() read back as 0 or 1)
Echo(a) ==
  [c \in {"namespaces", "deployments", "pods", "containers", "services", "routes",
          "configmaps", "secrets", "image", "cpu_requests", "memory_requests", "cpu_limits",
          "memory_limits", "startup_probe", "liveness_probe", "readiness_probe",
          "shared_selectors", "unique_selectors", "tolerations", "duration", "interface",
          "start_vlan", "end_vlan", "latency", "packet_loss", "bandwidth_limit", "flap_down",
          "flap_up", "firewall", "network", "dry_run"} |->
     CASE c = "services" -> IF a.service THEN 1 ELSE 0
       [] c = "routes" -> IF a.route THEN 1 ELSE 0
       [] c = "image" -> a.container_image
       [] c = "flap_down" -> a.link_flap_down
       [] c = "flap_up" -> a.link_flap_up
       [] c = "firewall" -> a.link_flap_firewall
       [] c = "network" -> a.link_flap_network
       [] OTHER -> a[c]]

\* C20: the configuration echo fields of the result row an invocation wrote
\* read back equal to the values passed in to it, also when the probes are
\* disabled with --no-probes.
C20_EchoRoundTrip ==
  \A i \in 1..Len(DataRows(results_file)) :
    \A c \in DOMAIN Echo(argv) :
      DataRows(results_file)[i].fields[Column(c)] = Echo(argv)[c]

\* Exactly one of the two flap periods passed in is positive
AsymmetricFlap ==
  \/ argv.link_flap_down = 0 /\ argv.link_flap_up > 0
  \/ argv.link_flap_down > 0 /\ argv.link_flap_up = 0

\* The options got past argument parsing and the run is neither a reset nor
\* the no-op of three disabled phases
PhasesDue ==
  /\ ~argv.reset /\ ~ProbesRejected(argv)
  /\ ~(argv.no_workload_phase /\ argv.no_measurement_phase /\ argv.no_cleanup_phase)
  /\ pc \notin {"parse_args", "dispatch"}

\* C21: in a run that would execute at least one phase, exactly one positive
\* flap period ends the run with exit code 1 before any phase starts and
\* before any command is issued, whichever phases are enabled.
C21_AsymmetricFlapIsFatal ==
  (PhasesDue /\ AsymmetricFlap) =>
    /\ pc = "exited" /\ exit_code = 1
    /\ cmds = <<>>
    /\ NoPhaseStarted

\* ---------------------------------------------------------------- C22
\* The three probe settings main() parses: the ones passed, or "off" under --no-probes
ProbeSettings ==
  [startup |-> EffectiveProbe(argv, argv.startup_probe),
   liveness |-> EffectiveProbe(argv, argv.liveness_probe),
   readiness |-> EffectiveProbe(argv, argv.readiness_probe)]

DecimalFields == {"0", "1", "3", "10", "12"}

KnownKinds == {"http", "HTTP", "tcp", "TCP", "exec", "EXEC", "off", "OFF"}

InvalidProbe(s) ==
  \/ Len(s) > 6
  \/ \E i \in 2..Len(s) : s[i] \notin DecimalFields
  \/ s[1] \notin KnownKinds

HandlerHead(s) ==
  CASE s[1] \in {"http", "HTTP"} -> <<"httpGet:", "  path:">>
    [] s[1] \in {"tcp", "TCP"} -> <<"tcpSocket:">>
    [] s[1] \in {"exec", "EXEC"} -> <<"exec:", "  command:">>

\* one line per numeric field in the fixed order, then the kind's handler lines
DescribedProbe(s, lines) ==
  IF s[1] \in {"off", "OFF"} THEN lines = <<>>
  ELSE /\ Len(lines) >= (Len(s) - 1) + Len(HandlerHead(s))
       /\ \A i \in 1..(Len(s) - 1) :
            lines[i] = [key |-> ProbePrefixes[i], value |-> s[i + 1]]
       /\ \A i \in 1..Len(HandlerHead(s)) :
            lines[Len(s) - 1 + i].key = HandlerHead(s)[i]
       /\ \A i \in (Len(s) + Len(HandlerHead(s)))..Len(lines) : lines[i].key = "  - "

\* C22: a run whose probe setting has more than 6 fields, a non-integer field
\* after the first or an unknown kind exits with code 1 before any command and
\* any phase; otherwise every setting of kind off gives an empty probe and every
\* other setting gives its numeric lines in the fixed order followed by the
\* kind's handler lines.
C22_ProbeSettingsParsed ==
  pc # "parse_args" =>
    IF \E p \in DOMAIN ProbeSettings : InvalidProbe(ProbeSettings[p])
      THEN /\ pc = "exited" /\ exit_code = 1
           /\ cmds = <<>>
           /\ NoPhaseStarted
           /\ probe_args = <<>>
      ELSE /\ DOMAIN probe_args = DOMAIN ProbeSettings
           /\ \A p \in DOMAIN ProbeSettings : DescribedProbe(ProbeSettings[p], probe_args[p])

C22_Witness ==
  /\ pc = "exited" /\ exit_code = 0 /\ DataRows(results_file) # <<>>
  /\ ~argv.no_probes
  /\ argv.startup_probe = <<"OFF", "3">>
  /\ probe_args.startup = <<>>
  /\ Len(probe_args.readiness) = 7

\* ---------------------------------------------------------------- C23
EngineJobs == {"kube-burner init create", "kube-burner init delete", "kube-burner index"}

OnceOnly ==
  EngineJobs \cup {"oc get ev NodeNotReady", "oc get ev NodeReady",
                   "oc get ev TaintManagerEviction", "oc get ev Killing"}

SameCommand(c, d) == c.name = d.name /\ c.dev = d.dev /\ c.args = d.args

\* C23: within one run the create, delete and index jobs and each event query
\* are issued at most once, and a command that returned a nonzero status is
\* never issued again.
C23_NoRetry ==
  /\ \A name \in OnceOnly : Len(Issued(name)) <= 1
  /\ \A i \in 1..Len(cmds) :
       cmds[i].rc # 0 => \A j \in (i + 1)..Len(cmds) : ~SameCommand(cmds[i], cmds[j])

C23_Witness ==
  /\ pc = "exited" /\ exit_code = 0
  /\ \E i, j \in 1..Len(cmds) : i < j /\ cmds[i].rc # 0 /\ cmds[i].name = cmds[j].name
  /\ \A name \in OnceOnly \ {"kube-burner index"} : Len(Issued(name)) = 1

\* ---------------------------------------------------------------- C24
Phases == <<"workload", "measurement", "cleanup", "metrics">>

PhaseEnabled(p) ==
  CASE p = "workload" -> ~cliargs.no_workload_phase
    [] p = "measurement" -> ~cliargs.no_measurement_phase
    [] p = "cleanup" -> ~cliargs.no_cleanup_phase
    [] p = "metrics" -> ~cliargs.no_metrics_phase

PhaseStart(t, p) ==
  CASE p = "workload" -> t.workload_start_time
    [] p = "measurement" -> t.measurement_start_time
    [] p = "cleanup" -> t.cleanup_start_time
    [] p = "metrics" -> t.metrics_start_time

PhaseEnd(t, p) ==
  CASE p = "workload" -> t.workload_end_time
    [] p = "measurement" -> t.measurement_end_time
    [] p = "cleanup" -> t.cleanup_end_time
    [] p = "metrics" -> t.metrics_end_time

EngineJob(p) ==
  CASE p = "workload" -> "kube-burner init create"
    [] p = "measurement" -> "none"
    [] p = "cleanup" -> "kube-burner init delete"
    [] p = "metrics" -> "kube-burner index"

\* where p's engine job stands in the log of commands
JobPosition(p) == CHOOSE i \in 1..Len(cmds) : cmds[i].name = EngineJob(p)

\* p's end was recorded by p itself: after its start, not the carried-over value
EndRecorded(t, p) ==
  /\ PhaseStart(t, p) # Unbound /\ PhaseEnd(t, p) # Unbound
  /\ PhaseEnd(t, p) >= PhaseStart(t, p)

\* a disabled phase issues no engine request and records no start; each engine
\* job is issued at most once and the jobs appear in phase order
C24_State ==
  /\ \A i \in 1..Len(Phases) :
       /\ Len(Issued(EngineJob(Phases[i]))) <= 1
       /\ (pc \notin {"parse_args", "dispatch", "validate_metrics"} /\ ~PhaseEnabled(Phases[i])) =>
            /\ Issued(EngineJob(Phases[i])) = <<>>
            /\ PhaseStart(times, Phases[i]) = Unbound
  /\ \A p, q \in 1..Len(Phases) :
       (p < q /\ Issued(EngineJob(Phases[p])) # <<>> /\ Issued(EngineJob(Phases[q])) # <<>>)
         => JobPosition(Phases[p]) < JobPosition(Phases[q])

\* a start is recorded once, for an enabled phase, after the end of every
\* earlier enabled phase
C24_Step ==
  \A q \in 1..Len(Phases) :
    /\ PhaseStart(times, Phases[q]) # Unbound =>
         PhaseStart(times', Phases[q]) = PhaseStart(times, Phases[q])
    /\ (PhaseStart(times, Phases[q]) = Unbound /\ PhaseStart(times', Phases[q]) # Unbound) =>
         /\ PhaseEnabled(Phases[q])
         /\ \A p \in 1..(q - 1) :
              /\ PhaseStart(times, Phases[p]) = PhaseStart(times', Phases[p])
              /\ PhaseEnabled(Phases[p]) =>
                   /\ EndRecorded(times, Phases[p])
                   /\ PhaseEnd(times, Phases[p]) <= PhaseStart(times', Phases[q])
         /\ \A r \in (q + 1)..Len(Phases) : PhaseStart(times', Phases[r]) = Unbound

\* C24: the enabled phases run in the order Workload, Measurement, Cleanup,
\* Metrics, each at most once; a phase's start is recorded only after the end
\* of every earlier enabled phase, and a disabled phase issues no engine
\* request and records no start.
C24_PhaseOrder == [](C24_State) /\ [][C24_Step]_vars

C24_Witness ==
  /\ pc = "exited" /\ exit_code = 0
  /\ \A i \in 1..Len(Phases) :
       PhaseEnabled(Phases[i]) /\ EndRecorded(times, Phases[i])
  /\ times.workload_start_time < times.workload_end_time
  /\ times.measurement_end_time < times.cleanup_start_time
  /\ times.cleanup_end_time <= times.metrics_start_time

\* ---------------------------------------------------------------- C25
PrometheusLookups == {"oc get route/prometheus-k8s", "oc sa get-token"}

LookupFailed ==
  \E i \in 1..Len(cmds) : cmds[i].name \in PrometheusLookups /\ cmds[i].rc # 0

OtherCommandFailed ==
  \E i \in 1..Len(cmds) : cmds[i].name \notin PrometheusLookups /\ cmds[i].rc # 0

\* C25: when the Metrics phase is requested and the lookup of the Prometheus
\* URL or token fails, the phase is disabled: no index job is issued, no
\* metrics row is written, and unless some other command fails the enabled
\* phases run and the run exits 0 with metrics_duration reported as 0.
C25_LookupFailureDisablesMetrics ==
  (~argv.no_metrics_phase /\ LookupFailed) =>
    /\ cliargs.no_metrics_phase
    /\ Issued("kube-burner index") = <<>>
    /\ times.metrics_start_time = Unbound
    /\ metrics_file.rows = <<>>
    /\ (pc = "exited" /\ ~OtherCommandFailed) =>
         /\ exit_code = 0
         /\ Len(DataRows(results_file)) = 1
         /\ DataRows(results_file)[1].fields[Column("metrics_duration")] = 0
         /\ \A p \in {"workload", "measurement", "cleanup"} :
              PhaseEnabled(p) => EndRecorded(times, p)

C25_Witness ==
  /\ ~argv.no_metrics_phase /\ LookupFailed
  /\ Len(Issued("oc sa get-token")) = 1
  /\ pc = "exited" /\ exit_code = 0
  /\ \A p \in {"workload", "measurement", "cleanup"} :
       PhaseEnabled(p) /\ EndRecorded(times, p)
  /\ DataRows(results_file)[1].fields[Column("metrics_duration")] = 0

\* ---------------------------------------------------------------- C26
NoOpRun == argv.no_workload_phase /\ argv.no_measurement_phase /\ argv.no_cleanup_phase

RanToCompletion == pc = "exited" /\ exit_code = 0 /\ ~argv.reset /\ ~NoOpRun

\* C26: an invocation that runs to completion appends exactly one result row;
\* one that ends on a fatal condition, on the no-op path or in reset mode
\* appends none; at most one metrics row is appended, and only when the
\* Metrics phase ran and the run is not a dry run.
C26_RowsPerInvocation ==
  /\ RanToCompletion => Len(DataRows(results_file)) = 1
  /\ ~RanToCompletion => results_file.rows = <<>> /\ metrics_file.rows = <<>>
  /\ Len(DataRows(metrics_file)) <= 1
  /\ DataRows(metrics_file) # <<>> =>
       /\ RanToCompletion
       /\ Len(Issued("kube-burner index")) = 1 /\ times.metrics_end_time # Unbound
       /\ ~argv.dry_run

C26_Witness ==
  /\ RanToCompletion
  /\ Len(DataRows(results_file)) = 1 /\ Len(DataRows(metrics_file)) = 1
  /\ Issued("kube-burner index")[1].rc = 0

\* ---------------------------------------------------------------- C27
DownCommands == {"iptables -A", "ip link set down"}

UpCommands == {"iptables -D", "ip link set up"}

\* The commands a step adds to the log
NewCommands == SubSeq(cmds', Len(cmds) + 1, Len(cmds'))

OnePass(new, names) ==
  /\ \A i \in 1..Len(new) : new[i].name \in names
  /\ \A i, j \in 1..Len(new) : i < j => new[i].dev.vlan < new[j].dev.vlan

DownPasses ==
  Len(SelectSeq(cmds, LAMBDA c : c.name \in DownCommands /\ c.dev.vlan = argv.start_vlan))

\* One poll of the wait loop: no toggle, or one pass in the direction opposite
\* to the links' state, only when the polled time has reached next_flap_time
C27_Poll ==
  (pc = "wait" /\ flap.current_time < times.measurement_expected_end_time) =>
    LET new == NewCommands
        toggled == now + Len(new) * cmd_ticks
    IN  IF new = <<>>
          THEN /\ flap'.links_down = flap.links_down
               /\ flap'.next_flap_time = flap.next_flap_time
               /\ flap'.link_flap_count = flap.link_flap_count
          ELSE /\ flap.flap_links
               /\ flap.current_time >= flap.next_flap_time
               /\ IF flap.links_down
                    THEN /\ OnePass(new, UpCommands)
                         /\ ~flap'.links_down
                         /\ flap'.link_flap_count = flap.link_flap_count
                         /\ pc' = "wait" =>
                              flap'.next_flap_time = toggled + argv.link_flap_up * TicksPerSecond
                    ELSE /\ OnePass(new, DownCommands)
                         /\ flap'.links_down
                         /\ flap'.link_flap_count = flap.link_flap_count + 1
                         /\ pc' = "wait" =>
                              flap'.next_flap_time = toggled + argv.link_flap_down * TicksPerSecond

\* C27: each poll of the wait loop makes at most one toggle, only at or past
\* next_flap_time; a toggle to down schedules the next one link_flap_down
\* seconds later and adds one to the flap count, a toggle to up schedules it
\* link_flap_up seconds later and leaves the count alone; the count always
\* equals the number of down passes issued.
C27_WaitLoopToggles == [](flap.link_flap_count = DownPasses) /\ [][C27_Poll]_vars

C27_Witness ==
  /\ pc = "wait"
  /\ argv.link_flap_down = 2 /\ argv.link_flap_up = 1
  /\ flap.link_flap_count = 2 /\ DownPasses = 2
  /\ flap.links_down
  /\ cmd_ticks > 0

\* ---------------------------------------------------------------- C28
\* What a pass of command name leaves on a sub-interface it succeeded on
PassState(name, before, after) ==
  CASE name = "tc qdisc add" -> after.netem
    [] name = "iptables -A" -> after.drop_rules = before.drop_rules + 1
    [] name = "iptables -D" -> after.drop_rules = before.drop_rules - 1
    [] name = "ip link set down" -> ~after.admin_up
    [] name = "ip link set up" -> after.admin_up

\* The passes in which a nonzero status is fatal: applySustained, and a flap
\* pass made before or inside the wait loop
FatalPass(c) ==
  \/ pc = "measurement" /\ c.name \in {"tc qdisc add"} \cup DownCommands
  \/ /\ pc = "wait" /\ flap.current_time < times.measurement_expected_end_time
     /\ c.name \in DownCommands \cup UpCommands

C28_Step ==
  LET new == NewCommands
  IN  \A i \in 1..Len(new) :
        (FatalPass(new[i]) /\ new[i].rc # 0) =>
          /\ i = Len(new)
          /\ pc' = "exited" /\ exit_code' = 1
          /\ \A u \in Vlans :
               /\ u >= new[i].dev.vlan => links'[u].admin_up = links[u].admin_up
                                          /\ links'[u].drop_rules = links[u].drop_rules
               /\ u < new[i].dev.vlan => PassState(new[i].name, links[u], links'[u])
               /\ new[i].name # "tc qdisc add" =>
                    links'[u].netem = (links[u].netem \/ parse_tc_netem_args(argv) # <<>>)
               /\ (new[i].name = "tc qdisc add" /\ u >= new[i].dev.vlan) =>
                    links'[u].netem = links[u].netem

\* nothing is issued or undone once the process has exited
C28_Exited == pc = "exited" => cmds' = cmds /\ links' = links

\* C28: a failure partway through applySustained or a flap pass is not rolled
\* back: the process exits 1 with the failed command as its last, the VLANs
\* before the failed one keep the state the pass gave them, the others keep
\* theirs, and impairments applied earlier in the phase stay applied.
C28_NoRollback == [][C28_Step /\ C28_Exited]_vars

C28_Witness ==
  /\ pc = "exited" /\ exit_code = 1
  /\ cmds # <<>>
  /\ cmds[Len(cmds)].name = "iptables -D" /\ cmds[Len(cmds)].rc # 0
  /\ cmds[Len(cmds)].dev.vlan = argv.start_vlan + 1
  /\ links[argv.start_vlan].drop_rules = 0 /\ links[argv.start_vlan + 1].drop_rules = 1
  /\ \A u \in Vlans : links[u].netem

\* ---------------------------------------------------------------- C29
NetworkOps == {"tc qdisc add", "tc qdisc del"} \cup DownCommands \cup UpCommands

BeforeMeasurement == {"oc get route/prometheus-k8s", "oc sa get-token", "kube-burner init create"}

\* every sustained-impairment and link-flap command stands in the log after the
\* commands that precede measurement_start_time and before those that follow
\* measurement_end_time
WithinMeasurement ==
  \A i \in 1..Len(cmds) :
    cmds[i].name \in NetworkOps =>
      /\ ~argv.no_measurement_phase
      /\ times.measurement_start_time # Unbound
      /\ \A j \in 1..Len(cmds) :
           /\ cmds[j].name \in BeforeMeasurement => j < i
           /\ cmds[j].name \notin (BeforeMeasurement \cup NetworkOps) => i < j

AppliedIffConfigured ==
  (~argv.no_measurement_phase /\ pc \in {"wait", "events", "cleanup", "metrics", "collect",
                                          "report"}) =>
    (Issued("tc qdisc add") # <<>> <=> parse_tc_netem_args(argv) # <<>>)

RemovedIffApplied ==
  pc = "exited" => (Issued("tc qdisc del") # <<>> <=> Issued("tc qdisc add") # <<>>)

\* C29: outside reset mode the sustained-impairment and link-flap commands are
\* issued only between the recording of the Measurement phase's start and of
\* its end, none with the phase disabled; impairments are applied iff the
\* impairment set is non-empty, and a removal pass is issued iff an apply pass
\* was.
C29_NetworkOpsWithinMeasurement ==
  ~argv.reset => WithinMeasurement /\ AppliedIffConfigured /\ RemovedIffApplied

\* ---------------------------------------------------------------- C30
\* main() is past phase p, which ran to its end
PhaseCompleted(p) ==
  /\ PhaseEnabled(p)
  /\ \/ RanToCompletion
     \/ pc \in (CASE p = "workload" -> {"measurement", "wait", "events", "cleanup", "metrics",
                                        "collect", "report"}
                  [] p = "measurement" -> {"events", "cleanup", "metrics", "collect", "report"}
                  [] p = "cleanup" -> {"metrics", "collect", "report"}
                  [] p = "metrics" -> {"collect", "report"})

DurationColumn(p) ==
  CASE p = "workload" -> Column("workload_duration")
    [] p = "measurement" -> Column("measurement_duration")
    [] p = "cleanup" -> Column("cleanup_duration")
    [] p = "metrics" -> Column("metrics_duration")

ReportedDurations(row) == [i \in 1..Len(Phases) |-> row.fields[DurationColumn(Phases[i])]]

\* C30: every enabled phase that completes has end >= start; every reported
\* phase duration is >= 0, and 0 for a disabled phase; total_duration is at
\* least the sum of the four reported phase durations.
C30_Durations ==
  /\ \A i \in 1..Len(Phases) :
       PhaseCompleted(Phases[i]) =>
         /\ PhaseStart(times, Phases[i]) # Unbound
         /\ PhaseEnd(times, Phases[i]) >= PhaseStart(times, Phases[i])
  /\ \A r \in 1..Len(DataRows(results_file)) :
       LET row == DataRows(results_file)[r]
       IN  /\ \A i \in 1..Len(Phases) :
                /\ ReportedDurations(row)[i] >= 0
                /\ ~PhaseEnabled(Phases[i]) => ReportedDurations(row)[i] = 0
           /\ row.fields[Column("total_duration")] >= Sum(ReportedDurations(row))

C30_Witness ==
  /\ RanToCompletion
  /\ LET row == DataRows(results_file)[1]
     IN  /\ \A i \in 1..Len(Phases) : ReportedDurations(row)[i] > 0
         /\ row.fields[Column("total_duration")] > Sum(ReportedDurations(row))

\* ---------------------------------------------------------------- C31
HeaderRows(file) == SelectSeq(file.rows, LAMBDA r : r.kind = "header")

\* the writers that are past write_csv_results
PastResults == {w \in Writers : writers[w].pc \notin {"results_is_file", "results_open",
                                                       "results_close"}}

\* C31: the existence test and the append are separate steps with nothing
\* between invocations to order them: every invocation that found the result
\* file absent writes a header row, so a file that did not exist can end up
\* with one header row per invocation.
C31_UnsynchronizedHeaders ==
  /\ \A w \in PastResults :
       /\ \E i \in 1..Len(results_file.rows) : results_file.rows[i].fields = WriterRow(w)
       /\ writers[w].wrote_header =>
            \E i \in 1..(Len(results_file.rows) - 1) :
              /\ results_file.rows[i].kind = "header"
              /\ results_file.rows[i + 1].fields = WriterRow(w)
       /\ ~writers[w].wrote_header =>
            \A i \in 2..Len(results_file.rows) :
              results_file.rows[i].fields = WriterRow(w) =>
                results_file.rows[i - 1].kind = "data"
  /\ Len(HeaderRows(results_file)) <= MaxWriters

\* both invocations tested a file that did not exist yet and both wrote a header
C31_Witness ==
  /\ \A w \in Writers : writers[w].pc = "returned"
  /\ Len(HeaderRows(results_file)) = 2
  /\ Len(DataRows(results_file)) = 2
  /\ results_file.rows[3].kind = "header"

\* ---------------------------------------------------------------- C32
\* a step of the wait loop's body: main() stays in the loop
LoopBody == pc = "wait" /\ pc' = "wait"

C32_Step ==
  /\ LoopBody => flap.current_time < times.measurement_start_time + argv.duration * TicksPerSecond
  /\ argv.duration <= 0 => ~LoopBody
  /\ (pc = "wait" /\ pc' = "events") =>
       flap.current_time >= times.measurement_start_time + argv.duration * TicksPerSecond

C32_Completed ==
  MeasurementCompleted =>
    times.measurement_end_time - times.measurement_start_time >= argv.duration * TicksPerSecond

\* C32: with a clock that advances and commands that return the wait loop
\* terminates; it is left only once the polled time is at or past
\* measurement_start_time + duration, so a completed Measurement phase lasts at
\* least duration seconds, and with duration <= 0 the body never runs.
C32_WaitLoopTerminates ==
  /\ (pc = "wait") ~> (pc # "wait")
  /\ [](C32_Completed)
  /\ [][C32_Step]_vars

C32_Witness ==
  /\ MeasurementCompleted /\ pc = "events"
  /\ argv.duration = MaxDuration
  /\ cmd_ticks > 0
  /\ times.measurement_end_time - times.measurement_start_time > argv.duration * TicksPerSecond

\* ---------------------------------------------------------------- C33
\* Entering the wait loop with link flap on: after any tc pass, one down pass
\* over every VLAN, the count at 1, the first bring-up link_flap_down seconds on
C33_Enter ==
  (pc = "measurement" /\ pc' = "wait" /\ flap.flap_links) =>
    LET new == SelectSeq(NewCommands, LAMBDA c : c.name # "tc qdisc add")
    IN  /\ Len(new) = argv.end_vlan - argv.start_vlan + 1
        /\ \A i \in 1..Len(new) :
             new[i].name \in DownCommands /\ new[i].dev.vlan = argv.start_vlan + i - 1
        /\ NewCommands[Len(NewCommands)].name \in DownCommands
        /\ flap'.link_flap_count = 1
        /\ flap'.links_down
        /\ flap'.next_flap_time = now' + argv.link_flap_down * TicksPerSecond
        /\ flap'.current_time = now'

C33_Reported ==
  flap.flap_links =>
    /\ ReachedWaitLoop => flap.link_flap_count >= 1
    /\ \A r \in 1..Len(DataRows(results_file)) :
         ~argv.no_measurement_phase =>
           DataRows(results_file)[r].fields[Column("flapped_down")] >= 1

\* C33: with link flap on, entering the Measurement phase brings every link
\* down once before the first poll and sets the flap count to 1, with the
\* first bring-up link_flap_down seconds later; every such run that reaches
\* the wait loop reports flapped_down >= 1, also with duration 0.
C33_FirstDownPass == [](C33_Reported) /\ [][C33_Enter]_vars

C33_Witness ==
  /\ pc = "exited" /\ exit_code = 0
  /\ flap.flap_links /\ argv.duration = 0
  /\ DataRows(results_file)[1].fields[Column("flapped_down")] = 1

\* ---------------------------------------------------------------- C34
DropRules(v) == links[v].drop_rules

\* C34: in a run that uses the firewall method, executes its commands and has
\* them all succeed, between the toggle passes links_down is true exactly when
\* every VLAN of the range has a DROP rule and false exactly when none has,
\* and no sub-interface ever has more than one.
C34_FlagMatchesDropRules ==
  (argv.link_flap_firewall /\ ~argv.dry_run /\ ~argv.reset /\ AllSucceeded) =>
    /\ \A v \in argv.start_vlan..argv.end_vlan : DropRules(v) <= 1
    /\ (pc = "wait" /\ flap.flap_links) =>
         /\ flap.links_down <=> \A v \in argv.start_vlan..argv.end_vlan : DropRules(v) = 1
         /\ ~flap.links_down <=> \A v \in argv.start_vlan..argv.end_vlan : DropRules(v) = 0

C34_Witness ==
  /\ argv.link_flap_firewall /\ ~argv.dry_run /\ AllSucceeded
  /\ pc = "wait" /\ flap.flap_links
  /\ flap.link_flap_count = 2 /\ flap.links_down
  /\ \A v \in argv.start_vlan..argv.end_vlan : DropRules(v) = 1

\* ---------------------------------------------------------------- C35
\* C35: whenever a run with the Measurement phase enabled exits with code 0,
\* every VLAN link of the range is up (administratively up, no DROP rule) and
\* carries no sustained impairment, whatever the individual commands returned.
C35_CleanExitLeavesLinksUp ==
  (pc = "exited" /\ exit_code = 0 /\ ~argv.no_measurement_phase /\ ~argv.reset) =>
    \A v \in argv.start_vlan..argv.end_vlan : LinkUp(links[v]) /\ ~links[v].netem

\* ---------------------------------------------------------------- C36
\* every command of the step did what it was asked wherever there was
\* something to do
CommandsTookEffect ==
  \A i \in 1..Len(NewCommands) :
    NewCommands[i].rc # 0 => ~Applicable(NewCommands[i].name, links[NewCommands[i].dev.vlan])

C36_Step ==
  (pc = "dispatch" /\ cliargs.reset /\ invocation = 2 /\ pc' = "exited") =>
    /\ runs[1].exit_code = Unbound
    /\ argv.interface = runs[1].args.interface
    /\ argv.start_vlan = runs[1].args.start_vlan /\ argv.end_vlan = runs[1].args.end_vlan
    /\ argv.link_flap_firewall = runs[1].args.link_flap_firewall
    /\ (~argv.dry_run /\ CommandsTookEffect) =>
         \A v \in argv.start_vlan..argv.end_vlan : LinkUp(links'[v]) /\ ~links'[v].netem

\* C36: after a run was terminated from outside at any point of its
\* Measurement phase, a reset with the same interface, VLAN range and flap
\* method whose commands are executed leaves every link of the range up and
\* no sustained impairment applied.
C36_ResetAfterKill == [][C36_Step]_vars

C36_Witness ==
  /\ invocation = 2 /\ pc = "exited" /\ exit_code = 0
  /\ \A v \in argv.start_vlan..argv.end_vlan : LinkUp(links[v]) /\ ~links[v].netem
  /\ \E i, j, k \in 1..Len(cmds) :
       /\ cmds[i].name = "iptables -D" /\ cmds[i].rc = 0 /\ cmds[i].dev.vlan = argv.start_vlan
       /\ cmds[j].name = "iptables -D" /\ cmds[j].rc # 0 /\ cmds[j].dev.vlan = argv.end_vlan
       /\ cmds[k].name = "tc qdisc del" /\ cmds[k].rc = 0

\* ---------------------------------------------------------------- C37
ResetRange == cliargs.start_vlan..cliargs.end_vlan

\* one bring-up for every VLAN of the range, then one removal for every VLAN
BringUpsThenRemovals(new) ==
  /\ Len(new) = 2 * NumVlans
  /\ \A i \in 1..NumVlans :
       /\ new[i].name \in UpCommands
       /\ new[i].dev = Dev(cliargs.start_vlan + i - 1)
       /\ new[NumVlans + i].name = "tc qdisc del"
       /\ new[NumVlans + i].dev = Dev(cliargs.start_vlan + i - 1)

C37_Step ==
  (cliargs.reset /\ pc = "dispatch") =>
    /\ BringUpsThenRemovals(NewCommands)
    /\ pc' = "exited" /\ exit_code' = 0
    /\ results_file' = results_file /\ metrics_file' = metrics_file
    /\ times' = times

C37_State ==
  (cliargs.reset /\ pc \in {"dispatch", "exited"}) =>
    /\ NoPhaseStarted
    /\ pc = "exited" => exit_code = 0
    /\ pc = "dispatch" => cmds = <<>>

\* C37: a reset invocation with valid probe settings issues one bring-up for
\* every VLAN of the range and then one removal for every VLAN of the range,
\* whatever statuses they return, starts no phase, writes no row and exits
\* with code 0, whatever the phase flags and flap arguments are.
C37_ResetInvocation == [](C37_State) /\ [][C37_Step]_vars

C37_Witness ==
  /\ cliargs.reset /\ pc = "exited" /\ exit_code = 0 /\ ~cliargs.dry_run
  /\ ~cliargs.no_workload_phase /\ cliargs.link_flap_down > 0 /\ cliargs.link_flap_up = 0
  /\ Len(cmds) = 2 * NumVlans
  /\ cmds[1].rc # 0 /\ cmds[NumVlans + 1].rc # 0
  /\ NoRowWritten /\ NoPhaseStarted

\* ---------------------------------------------------------------- C38
FailedQueries == { i \in 1..Len(cmds) : cmds[i].name \in Range(EventQueries) /\ cmds[i].rc # 0 }

\* the sustained impairments were removed before command i was issued
RemovedBefore(i) ==
  Len(netem_impairments) > 0 =>
    /\ \A v \in cliargs.start_vlan..cliargs.end_vlan :
         /\ ~links[v].netem
         /\ \E j \in 1..(i - 1) :
              cmds[j].name = "tc qdisc del" /\ cmds[j].dev = Dev(v) /\ cmds[j].rc = 0

\* the links were brought up, by the pass that ignores errors, before command i
BroughtUpBefore(i) ==
  flap.flap_links =>
    \A v \in cliargs.start_vlan..cliargs.end_vlan :
      \E j \in 1..(i - 1) : cmds[j].name \in UpCommands /\ cmds[j].dev = Dev(v)

\* C38: when one of the four event queries made after the measurement
\* returns a nonzero status, the run ends with exit code 1 after the
\* impairments were removed and before the Cleanup phase: the failed query is
\* the last command, no delete job is issued and no row is written.
C38_EventQueryFailureIsFatal ==
  \A i \in FailedQueries :
    /\ pc = "exited" /\ exit_code = 1
    /\ i = Len(cmds)
    /\ RemovedBefore(i) /\ BroughtUpBefore(i)
    /\ times.measurement_end_time # Unbound
    /\ times.cleanup_start_time = Unbound
    /\ Issued("kube-burner init delete") = <<>>
    /\ Issued("kube-burner index") = <<>>
    /\ NoRowWritten

C38_Witness ==
  /\ pc = "exited" /\ exit_code = 1
  /\ ~cliargs.no_cleanup_phase /\ ~cliargs.no_workload_phase
  /\ Len(netem_impairments) > 0
  /\ Issued("kube-burner init create") # <<>>
  /\ cmds[Len(cmds)].name = "oc get ev TaintManagerEviction" /\ cmds[Len(cmds)].rc # 0

\* ---------------------------------------------------------------- C39
\* every command of a dry run is an echo, which returns 0
AllEchoed == \A i \in 1..Len(cmds) : cmds[i].echo /\ cmds[i].rc = 0

\* each enabled phase was started, made its engine request and ended, in order
PhasesWalked ==
  /\ \A i \in 1..Len(Phases) :
       PhaseEnabled(Phases[i]) =>
         /\ EndRecorded(times, Phases[i])
         /\ EngineJob(Phases[i]) # "none" => Len(Issued(EngineJob(Phases[i]))) = 1
  /\ \A p, q \in 1..Len(Phases) :
       (p < q /\ PhaseEnabled(Phases[p]) /\ PhaseEnabled(Phases[q])) =>
         PhaseEnd(times, Phases[p]) <= PhaseStart(times, Phases[q])
  /\ ~cliargs.no_measurement_phase => Range(EventQueries) \subseteq {c.name : c \in Range(cmds)}

DryRunRow ==
  /\ Len(DataRows(results_file)) = 1
  /\ LET row == DataRows(results_file)[1].fields
     IN  /\ row[Column("dry_run")] = TRUE
         /\ \A c \in EventColumns : row[c] = 0
         /\ \A c \in LatencyColumns : row[c] = 0

C39_State ==
  argv.dry_run =>
    /\ AllEchoed
    /\ metrics_file.rows = <<>>
    /\ (pc = "exited" /\ exit_code # 0) => (NoPhaseStarted /\ NoRowWritten)
    /\ RanToCompletion => (PhasesWalked /\ DryRunRow)

C39_Step == cliargs.dry_run => links' = links

\* C39: in a dry run every command is an echo of its command line and changes
\* no link; a run that passes validation walks its enabled phases in order
\* and writes one result row with dry_run true, the five event counters 0 and
\* the 20 pod-latency fields 0, and no metrics row.
C39_DryRun == [](C39_State) /\ [][C39_Step]_vars

C39_Witness ==
  /\ argv.dry_run /\ RanToCompletion
  /\ ~argv.no_workload_phase /\ ~argv.no_cleanup_phase /\ ~cliargs.no_metrics_phase
  /\ Issued("tc qdisc add") # <<>> /\ Issued("tc qdisc del") # <<>>
  /\ Len(Issued("iptables -A")) > NumVlans
  /\ DryRunRow
  /\ links = DownLinks

====
